---- MODULE Spec2Model ----
(***************************************************************************)
(* A model of the /api/grok edge proxy (route.ts): the fixed-window rate   *)
(* limiter, the request validation pipeline and the relay of the upstream  *)
(* stream.  Each action is one synchronous segment of the async POST       *)
(* handler: the event loop runs a segment to its next await without        *)
(* interleaving, so the segments are the atomic steps.                     *)
(***************************************************************************)
EXTENDS Integers, Sequences, FiniteSets, TLC

VARIABLES
    now,               \* Date.now(), in ms
    rateState,         \* the module-scope Map clientId -> RateEntry
    apiKey,            \* process.env.XAI_API_KEY (a string, "" when unset)
    pc,                \* per handler: the await it is suspended at
    req,               \* per handler: the NextRequest it was called with
    rateLimitHeaders,  \* per handler: the local rateLimitHeaders
    sent,              \* per handler: the payload given to fetch, NoPayload if none
    apiRes,            \* per handler: the upstream Response being read
    resp,              \* per handler: the Response returned by POST
    admission,         \* history, per handler: its call of applyRateLimit, the
                       \* time, the result and the entry before and after
    window,            \* history, per client id: the calls of its last window
    callInput,         \* the argument of a function called on its own
    callOutput,        \* the results of the calls made with it
    client             \* the page: streamWithRetries and what it has done

\* the variables of the route handler, and those outside it
serverVars == <<now, rateState, apiKey, pc, req, rateLimitHeaders, sent, apiRes, resp,
                admission, window>>
callVars == <<callInput, callOutput>>
vars == <<serverVars, callVars, client>>

-----------------------------------------------------------------------------
(* Bounds of the model *)

\* number of POST handlers that may be in flight at once
NumHandlers == 2
\* the clock runs over the instants w * windowMs + o, w in 0..MaxWindows
MaxWindows == 1

Handlers == 1..NumHandlers

-----------------------------------------------------------------------------
(* Program constants *)

RATE_LIMIT_WINDOW_MS == 60000
RATE_LIMIT_MAX_REQUESTS == 10

BASE == 128
MAX_MESSAGES == 50
MAX_TEXT_CHARS == 8000
MAX_PROMPT_CHARS == 4000

Max(a, b) == IF a >= b THEN a ELSE b
Min(a, b) == IF a <= b THEN a ELSE b

\* Math.ceil(x / d) for an integer x and d > 0
FloorDiv(x, d) == x \div d
CeilDiv(x, d) == -((-x) \div d)

RECURSIVE Pow2(_)
Pow2(n) == IF n <= 0 THEN 1 ELSE 2 * Pow2(n - 1)

MIN_OUTPUT_TOKENS == BASE
MAX_OUTPUT_TOKENS == BASE * Pow2(5 - 1)
DEFAULT_OUTPUT_TOKENS == BASE * Pow2(3 - 1)

ALLOWED_MODELS == {"grok-4-fast-reasoning", "grok-4-fast-non-reasoning"}

-----------------------------------------------------------------------------
(* The rate limiter *)

\* limit and windowMs as applyRateLimit resolves them from the environment
limit == IF RATE_LIMIT_MAX_REQUESTS > 0 THEN RATE_LIMIT_MAX_REQUESTS ELSE 10
windowMs == IF RATE_LIMIT_WINDOW_MS > 0 THEN RATE_LIMIT_WINDOW_MS ELSE 60000

\* a Map as a function whose domain is its key set
MapSet(m, k, v) == [x \in DOMAIN m \cup {k} |-> IF x = k THEN v ELSE m[x]]

cleanupRateStateNever(rs, t) == rs
cleanupRateStateAll(rs, t) ==
    IF \E id \in DOMAIN rs : rs[id].resetAt <= t THEN <<>> ELSE rs
cleanupRateState(rs, t) ==
    LET keep == {id \in DOMAIN rs : ~(rs[id].resetAt <= t)}
    IN  [id \in keep |-> rs[id]]

\* the count written back by an admitted call inside the window
IncrementedSkip(existing) == existing.count
Incremented(existing) == existing.count + 1

\* the admission test of a call inside the window
OverLimitOffByOne(existing) == existing.count > limit
OverLimit(existing) == existing.count >= limit

\* the window end of a fresh entry
FreshResetAtSliding(t) == t + windowMs + 1
FreshResetAt(t) == t + windowMs

\* applyRateLimit(clientId) at time t on the map rs: the map it leaves and
\* the RateLimitResult it returns
applyRateLimit(rs, t, clientId) ==
    LET cleaned == cleanupRateState(rs, t)
        has == clientId \in DOMAIN cleaned
        existing == cleaned[clientId]
        resetSeconds ==
            IF has THEN Max(1, CeilDiv(existing.resetAt - t, 1000))
                   ELSE Max(1, CeilDiv(windowMs, 1000))
    IN  IF ~has \/ existing.resetAt <= t
        THEN LET resetAt == FreshResetAt(t)
             IN  [rs |-> MapSet(cleaned, clientId, [count |-> 1, resetAt |-> resetAt]),
                  result |-> [allowed |-> TRUE,
                              limit |-> limit,
                              remaining |-> Max(0, limit - 1),
                              resetSeconds |-> Max(1, CeilDiv(resetAt - t, 1000))]]
        ELSE IF OverLimit(existing)
        THEN LET retryAfterSeconds == Max(1, CeilDiv(existing.resetAt - t, 1000))
             IN  [rs |-> cleaned,
                  result |-> [allowed |-> FALSE,
                              limit |-> limit,
                              retryAfterSeconds |-> retryAfterSeconds,
                              resetSeconds |-> retryAfterSeconds]]
        ELSE LET count == Incremented(existing)
             IN  [rs |-> MapSet(cleaned, clientId,
                                [count |-> count, resetAt |-> existing.resetAt]),
                  result |-> [allowed |-> TRUE,
                              limit |-> limit,
                              remaining |-> Max(0, limit - count),
                              resetSeconds |-> resetSeconds]]

-----------------------------------------------------------------------------
(* Strings.  A JavaScript string is a TLA+ string; its characters are read  *)
(* with SubSeq.  The recursions split in halves, so a string of MAX_TEXT_   *)
(* CHARS characters is handled at logarithmic depth.                        *)

RECURSIVE Repeat(_, _)
Repeat(c, n) ==
    IF n <= 0 THEN ""
    ELSE IF n = 1 THEN c
    ELSE LET h == Repeat(c, n \div 2)
         IN  IF n % 2 = 0 THEN h \o h ELSE h \o h \o c

\* value.replace(/[set]/g, '')
RECURSIVE RemoveChars(_, _)
RemoveChars(s, set) ==
    IF Len(s) = 0 THEN ""
    ELSE IF Len(s) = 1 THEN (IF s \in set THEN "" ELSE s)
    ELSE LET m == Len(s) \div 2
         IN  RemoveChars(SubSeq(s, 1, m), set) \o RemoveChars(SubSeq(s, m + 1, Len(s)), set)

\* the characters of [\x00-\x1F\x7F-\x9F] a string literal can hold
PromptControlChars == {"\t", "\n", "\r", "\f"}
\* the characters of [\x00-\x08\x0B\x0C\x0E-\x1F\x7F-\x9F] a string literal can hold
TextControlChars == {"\f"}
WhiteSpace == {" ", "\t", "\n", "\r", "\f"}

RECURSIVE TrimStart(_)
TrimStart(s) ==
    IF Len(s) > 0 /\ SubSeq(s, 1, 1) \in WhiteSpace THEN TrimStart(SubSeq(s, 2, Len(s))) ELSE s

RECURSIVE TrimEnd(_)
TrimEnd(s) ==
    IF Len(s) > 0 /\ SubSeq(s, Len(s), Len(s)) \in WhiteSpace
    THEN TrimEnd(SubSeq(s, 1, Len(s) - 1)) ELSE s

Trim(s) == TrimEnd(TrimStart(s))

\* s.slice(0, n)
SliceTo(s, n) == SubSeq(s, 1, Min(n, Len(s)))

\* s.includes(sub)
Includes(s, sub) ==
    \E i \in 1..(Len(s) - Len(sub) + 1) : SubSeq(s, i, i + Len(sub) - 1) = sub

\* s.startsWith(pre)
StartsWith(s, pre) == Len(s) >= Len(pre) /\ SubSeq(s, 1, Len(pre)) = pre

sanitizePrompt(value) == Trim(RemoveChars(value, PromptControlChars))

sanitizeTextSegment(value) == RemoveChars(value, TextControlChars)

-----------------------------------------------------------------------------
(* JSON values, tagged with their typeof.  A number is held in tenths (v10  *)
(* = 25 is 2.5) so that Math.floor acts on a fraction; fin = FALSE is the   *)
(* Infinity that JSON.parse gives for a literal like 1e999.                 *)

Undefined == [t |-> "undefined"]
Null == [t |-> "null"]
Str(s) == [t |-> "string", v |-> s]
Num(x10) == [t |-> "number", fin |-> TRUE, v10 |-> x10]
Infinity == [t |-> "number", fin |-> FALSE, v10 |-> 0]
Arr(items) == [t |-> "array", items |-> items]

IsString(j) == j.t = "string"
IsFiniteNumber(j) == j.t = "number" /\ j.fin
\* typeof j === 'object' && j !== null
IsObject(j) == j.t \in {"object", "array"}

\* Math.floor of a finite number
Floor(j) == j.v10 \div 10

-----------------------------------------------------------------------------
(* Regular expressions.  A pattern is a tree; Ends(re, s, I) is the set of  *)
(* positions at which a match of re that starts at a position of I can end  *)
(* (position i is before the i-th character).                               *)

Lit(w) == [k |-> "lit", s |-> w]
OneOf(chars) == [k |-> "class", set |-> chars]
NoneOf(chars) == [k |-> "nclass", set |-> chars]
Cat(list) == [k |-> "cat", a |-> list]
Alt(list) == [k |-> "alt", a |-> list]
Opt(r) == [k |-> "opt", r |-> r]
Star(r) == [k |-> "star", r |-> r]
Plus(r) == Cat(<<r, Star(r)>>)
WordBoundary == [k |-> "wb"]

Lower == {"a", "b", "c", "d", "e", "f", "g", "h", "i", "j", "k", "l", "m",
          "n", "o", "p", "q", "r", "s", "t", "u", "v", "w", "x", "y", "z"}
Upper == {"A", "B", "C", "D", "E", "F", "G", "H", "I", "J", "K", "L", "M",
          "N", "O", "P", "Q", "R", "S", "T", "U", "V", "W", "X", "Y", "Z"}
Digits == {"0", "1", "2", "3", "4", "5", "6", "7", "8", "9"}
\* \w, \d and \s
WordChars == Lower \cup Upper \cup Digits \cup {"_"}
SpaceChars == {" ", "\t", "\n", "\r", "\f"}

CharAt(s, i) == IF i >= 1 /\ i <= Len(s) THEN SubSeq(s, i, i) ELSE ""

RECURSIVE Ends(_, _, _)
Ends(re, s, I) ==
    IF I = {} THEN {}
    ELSE CASE re.k = "lit" ->
                {i + Len(re.s) : i \in {j \in I : /\ j + Len(re.s) - 1 <= Len(s)
                                                   /\ SubSeq(s, j, j + Len(re.s) - 1) = re.s}}
           [] re.k = "class" ->
                {i + 1 : i \in {j \in I : CharAt(s, j) \in re.set}}
           [] re.k = "nclass" ->
                {i + 1 : i \in {j \in I : j <= Len(s) /\ CharAt(s, j) \notin re.set}}
           [] re.k = "cat" ->
                IF Len(re.a) = 0 THEN I
                ELSE Ends(Cat(Tail(re.a)), s, Ends(Head(re.a), s, I))
           [] re.k = "alt" ->
                UNION {Ends(re.a[n], s, I) : n \in 1..Len(re.a)}
           [] re.k = "opt" ->
                I \cup Ends(re.r, s, I)
           [] re.k = "star" ->
                LET more == Ends(re.r, s, I) \ I
                IN  I \cup Ends(re, s, more)
           [] re.k = "wb" ->
                {i \in I : (CharAt(s, i - 1) \in WordChars) # (CharAt(s, i) \in WordChars)}

\* re.test(s): a match may start anywhere
Test(re, s) == Ends(re, s, 1..(Len(s) + 1)) # {}

-----------------------------------------------------------------------------
(* The content guard (lib/nsfwGuard.ts) *)

W(w) == Lit(w)
Spaces0 == Star(OneOf(SpaceChars))
Spaces1 == Plus(OneOf(SpaceChars))
Digits1 == Plus(OneOf(Digits))
Word(r) == Cat(<<WordBoundary, r, WordBoundary>>)

UNDERAGE_LEX ==
    Word(Alt(<<Cat(<<W("menor"), Opt(W("es"))>>),
               Cat(<<W("nin"), OneOf({"o", "a"}), Opt(W("s"))>>),
               Cat(<<W("adolescente"), Opt(W("s"))>>),
               Cat(<<W("teen"), Opt(W("ager")), Opt(W("s"))>>),
               Cat(<<W("infante"), Opt(W("s"))>>),
               Cat(<<W("pre"), Alt(<<W("adolecente"), W("pubescente")>>), Opt(W("s"))>>),
               W("loli"),
               W("shota")>>))

UNDERAGE_AGE ==
    Cat(<<WordBoundary,
          Alt(<<Cat(<<W("1"), OneOf({"0", "1", "2", "3", "4", "5", "6", "7"})>>),
                OneOf(Digits \ {"0"})>>),
          Spaces0,
          Alt(<<W("años"), W("anos"), Cat(<<W("year"), Opt(W("s"))>>),
                Cat(<<W("yr"), Opt(W("s"))>>), W("y/o"), W("yo")>>),
          Opt(Cat(<<Spaces0, W("de"), Spaces0, W("edad")>>)),
          WordBoundary>>)

UNDERAGE_EXCLUSIONS ==
    Word(Alt(<<Cat(<<W("hace"), Spaces0, Digits1, Spaces0, W("anos")>>),
               Cat(<<W("anos"), Spaces0,
                     Alt(<<Cat(<<W("de"), Spaces0, W("experiencia")>>),
                           W("despues"), W("atras"), W("antiguedad")>>)>>),
               Cat(<<W("antiguedad"), Spaces0, Digits1, Spaces0, W("anos")>>)>>))

HARD_RULES ==
    Word(Alt(<<W("incesto"), W("zoofilia"), W("bestialidad"),
               Cat(<<W("violencia"), Spaces1, W("sexual")>>),
               W("violacion"), W("rape"), W("trata"), W("explotacion"),
               W("sextortion")>>))

DOXXING ==
    Word(Alt(<<Cat(<<W("dox"), Alt(<<W("eo"), W("ear"), W("xing")>>)>>),
               Cat(<<W("filtrar"), Spaces1, W("datos")>>),
               Cat(<<W("exponer"), Spaces1, W("datos")>>)>>))

REAL_LIKENESS ==
    Alt(<<Cat(<<W("@"), Plus(OneOf(WordChars))>>),
          Cat(<<W("http"), Opt(W("s")), W("://"), Opt(W("www.")),
                Alt(<<W("instagram"), W("facebook"), W("tiktok"), W("x"), W("twitter")>>),
                W(".com/"), Plus(NoneOf(SpaceChars))>>)>>)

NSFW_TERMS ==
    Word(Alt(<<W("sex"), W("sexo"), W("porn"), W("porno"), W("desnudo"),
               W("desnudos"), W("erot"), W("fetich"), W("xxx")>>))

isLetterOrDigit(char) == char \in Lower \cup Digits
isLetter(char) == char \in Lower

\* the replacement of the character at offset i of input (1-based here)
LeetAt(input, i) ==
    LET match == CharAt(input, i)
        prev == CharAt(input, i - 1)
        next == CharAt(input, i + 1)
        nearLetters == isLetter(prev) \/ isLetter(next)
    IN  CASE match \in {"1", "!"} -> IF nearLetters THEN "i" ELSE match
          [] match = "3" -> IF nearLetters THEN "e" ELSE match
          [] match = "0" -> IF nearLetters THEN "o" ELSE match
          [] match = "$" -> IF nearLetters THEN "s" ELSE match
          [] match = "@" -> "a"
          [] OTHER -> match

RECURSIVE LeetRange(_, _, _)
LeetRange(input, lo, hi) ==
    IF lo > hi THEN ""
    ELSE IF lo = hi THEN LeetAt(input, lo)
    ELSE LET m == (lo + hi) \div 2
         IN  LeetRange(input, lo, m) \o LeetRange(input, m + 1, hi)

applyLeetspeak(input) == LeetRange(input, 1, Len(input))

\* toLowerCase, then normalize('NFKD') with the combining marks removed, of
\* one character: a letter with a mark decomposes into the letter and the mark,
\* a compatibility character into the characters it stands for
FoldChar(c) ==
    CASE c \in {"A", "á", "Á", "ª"} -> "a"
      [] c = "B" -> "b" [] c \in {"C", "ç", "Ç"} -> "c" [] c = "D" -> "d"
      [] c \in {"E", "é", "É"} -> "e"
      [] c = "F" -> "f" [] c = "G" -> "g" [] c = "H" -> "h"
      [] c \in {"I", "í", "Í"} -> "i"
      [] c = "J" -> "j" [] c = "K" -> "k" [] c = "L" -> "l" [] c = "M" -> "m"
      [] c \in {"N", "ñ", "Ñ"} -> "n"
      [] c \in {"O", "ó", "Ó", "º"} -> "o"
      [] c = "P" -> "p" [] c = "Q" -> "q" [] c = "R" -> "r" [] c = "S" -> "s"
      [] c = "T" -> "t"
      [] c \in {"U", "ú", "Ú", "ü", "Ü"} -> "u"
      [] c = "V" -> "v" [] c = "W" -> "w" [] c = "X" -> "x" [] c = "Y" -> "y"
      [] c = "Z" -> "z"
      [] c = "²" -> "2"
      [] OTHER -> c

RECURSIVE FoldString(_)
FoldString(s) ==
    IF Len(s) = 0 THEN ""
    ELSE IF Len(s) = 1 THEN FoldChar(s)
    ELSE LET m == Len(s) \div 2
         IN  FoldString(SubSeq(s, 1, m)) \o FoldString(SubSeq(s, m + 1, Len(s)))

normalizeText(text) == applyLeetspeak(FoldString(text))

REASON_UNDERAGE == "Lo siento, eso viola nuestras reglas de contenido seguro (referencia a menores)."
REASON_AGE == "Lo siento, eso viola nuestras reglas de contenido seguro (referencia etaria a menores)."
REASON_HARD == "Lo siento, eso viola nuestras reglas de contenido seguro (contenido hard prohibido)."
REASON_DOXXING == "Lo siento, eso viola nuestras reglas de contenido seguro (doxxing)."
REASON_LIKENESS == "Lo siento, eso viola nuestras reglas de contenido seguro (likeness real en contexto NSFW)."

NoError == ""

\* guardOrThrow(text): the message of the Error it throws, NoError if it returns
guardOrThrowHardFirst(text) ==
    LET normalized == normalizeText(text)
    IN  IF Test(HARD_RULES, normalized) THEN REASON_HARD
        ELSE IF Test(UNDERAGE_LEX, normalized) THEN REASON_UNDERAGE
        ELSE IF Test(UNDERAGE_AGE, normalized) /\ ~Test(UNDERAGE_EXCLUSIONS, normalized)
        THEN REASON_AGE
        ELSE IF Test(DOXXING, normalized) THEN REASON_DOXXING
        ELSE IF Test(REAL_LIKENESS, text) /\ Test(NSFW_TERMS, normalized) THEN REASON_LIKENESS
        ELSE NoError
guardOrThrowNormalizedLikeness(text) ==
    LET normalized == normalizeText(text)
    IN  IF Test(UNDERAGE_LEX, normalized) THEN REASON_UNDERAGE
        ELSE IF Test(UNDERAGE_AGE, normalized) /\ ~Test(UNDERAGE_EXCLUSIONS, normalized)
        THEN REASON_AGE
        ELSE IF Test(HARD_RULES, normalized) THEN REASON_HARD
        ELSE IF Test(DOXXING, normalized) THEN REASON_DOXXING
        ELSE IF Test(REAL_LIKENESS, normalized) /\ Test(NSFW_TERMS, normalized)
        THEN REASON_LIKENESS
        ELSE NoError
guardOrThrow(text) ==
    LET normalized == normalizeText(text)
    IN  IF Test(UNDERAGE_LEX, normalized) THEN REASON_UNDERAGE
        ELSE IF Test(UNDERAGE_AGE, normalized) /\ ~Test(UNDERAGE_EXCLUSIONS, normalized)
        THEN REASON_AGE
        ELSE IF Test(HARD_RULES, normalized) THEN REASON_HARD
        ELSE IF Test(DOXXING, normalized) THEN REASON_DOXXING
        ELSE IF Test(REAL_LIKENESS, text) /\ Test(NSFW_TERMS, normalized) THEN REASON_LIKENESS
        ELSE NoError

-----------------------------------------------------------------------------
(* Message coercion *)

MAX_DATA_URL_BYTES == 20 * 1024 * 1024

DETAIL_LEVELS == {"auto", "low", "high"}

\* an object of the request body; a key the JSON text lacks reads as Undefined
RawMessage(role, content) == [t |-> "object", role |-> role, content |-> content]
RawText(text) ==
    [t |-> "object", type |-> Str("text"), text |-> text, image_url |-> Undefined]
RawImage(url, detail) ==
    [t |-> "object", type |-> Str("image_url"), text |-> Undefined,
     image_url |-> [t |-> "object", url |-> url, detail |-> detail]]

\* the outcome of a call that may throw
Ok(v) == [ok |-> TRUE, v |-> v]
Throw(message) == [ok |-> FALSE, error |-> message]

TYPE_ERROR == "TypeError"
MSG_INVALID == "Mensaje inválido"
MSG_ROLE == "Rol de mensaje inválido."
MSG_URL == "URL de imagen inválida"
MSG_DATA_URL == "Data URL de imagen inválida"
MSG_TOO_BIG == "La imagen adjunta supera el límite de 20 MiB"

\* !value
Falsy(j) ==
    \/ j.t \in {"undefined", "null"}
    \/ j.t = "string" /\ j.v = ""
    \/ j.t = "number" /\ j.fin /\ j.v10 = 0
    \/ j.t = "boolean" /\ ~j.v

LowerChar(c) ==
    CASE c = "A" -> "a" [] c = "B" -> "b" [] c = "C" -> "c" [] c = "D" -> "d"
      [] c = "E" -> "e" [] c = "F" -> "f" [] c = "G" -> "g" [] c = "H" -> "h"
      [] c = "I" -> "i" [] c = "J" -> "j" [] c = "K" -> "k" [] c = "L" -> "l"
      [] c = "M" -> "m" [] c = "N" -> "n" [] c = "O" -> "o" [] c = "P" -> "p"
      [] c = "Q" -> "q" [] c = "R" -> "r" [] c = "S" -> "s" [] c = "T" -> "t"
      [] c = "U" -> "u" [] c = "V" -> "v" [] c = "W" -> "w" [] c = "X" -> "x"
      [] c = "Y" -> "y" [] c = "Z" -> "z"
      [] OTHER -> c

RECURSIVE toLowerCase(_)
toLowerCase(s) ==
    IF Len(s) = 0 THEN ""
    ELSE IF Len(s) = 1 THEN LowerChar(s)
    ELSE LET m == Len(s) \div 2
         IN  toLowerCase(SubSeq(s, 1, m)) \o toLowerCase(SubSeq(s, m + 1, Len(s)))

\* normalizeDetail(detail); a truthy value that is no string has no toLowerCase
normalizeDetail(detail) ==
    IF Falsy(detail) THEN Ok("auto")
    ELSE IF ~IsString(detail) THEN Throw(TYPE_ERROR)
    ELSE LET lowered == toLowerCase(detail.v)
         IN  Ok(IF lowered \in DETAIL_LEVELS THEN lowered ELSE "auto")

\* new URL(url) parses and its protocol is http: or https:
isHttpUrl(url) ==
    LET lowered == toLowerCase(url)
    IN  \/ StartsWith(lowered, "http://") /\ Len(url) > Len("http://")
        \/ StartsWith(lowered, "https://") /\ Len(url) > Len("https://")

Base64Chars == Lower \cup Digits \cup {"+", "/", "=", "\r", "\n"}

\* the pattern has the i flag: it is matched on the lower-cased url
DATA_URL_PATTERN ==
    Cat(<<Lit("data:image/"),
          Alt(<<Lit("png"), Cat(<<Lit("jp"), Opt(Lit("e")), Lit("g")>>)>>),
          Lit(";base64,"),
          Plus(OneOf(Base64Chars))>>)

\* ^...$ : the match is the whole string
Matches(re, s) == (Len(s) + 1) \in Ends(re, s, {1})

EndsWith(s, suf) == Len(s) >= Len(suf) /\ SubSeq(s, Len(s) - Len(suf) + 1, Len(s)) = suf

\* the decoded size of a base64 text of the given length and padding
DataUrlBytesUnpadded(length, padding) == (length \div 4) * 3
DataUrlBytes(length, padding) == (length \div 4) * 3 - padding

\* getDataUrlPayload(url): NoPayloadMatch for null
NoPayloadMatch == [matched |-> FALSE]

\* base64.endsWith('==') ? 2 : base64.endsWith('=') ? 1 : 0
Padding(base64) ==
    IF EndsWith(base64, "==") THEN 2 ELSE IF EndsWith(base64, "=") THEN 1 ELSE 0

\* { base64, bytes }
PayloadOfSize(base64, length, padding) ==
    [matched |-> TRUE, base64 |-> base64, bytes |-> DataUrlBytes(length, padding)]
PayloadOf(base64) == PayloadOfSize(base64, Len(base64), Padding(base64))

\* url.indexOf(',')
CommaIndex(url) == CHOOSE i \in 1..Len(url) : SubSeq(url, i, i) = ","

getDataUrlPayload(url) ==
    IF ~Matches(DATA_URL_PATTERN, toLowerCase(url)) THEN NoPayloadMatch
    ELSE PayloadOf(RemoveChars(SubSeq(url, CommaIndex(url) + 1, Len(url)), SpaceChars))

\* the text part once its text is sanitized
coerceTextPart(textValue) ==
    IF textValue = "" \/ Len(textValue) > MAX_TEXT_CHARS
    THEN Throw(MSG_INVALID)
    ELSE Ok([type |-> "text", text |-> textValue])

\* the image part of a data URL once its payload is read
coerceDataUrlPart(url, detail, payload) ==
    IF ~payload.matched THEN Throw(MSG_DATA_URL)
    ELSE IF payload.bytes > MAX_DATA_URL_BYTES THEN Throw(MSG_TOO_BIG)
    ELSE Ok([type |-> "image_url", image_url |-> [url |-> url, detail |-> detail]])

\* the image part once its url is trimmed and its detail normalized
coerceImagePart(url, detail) ==
    IF url = "" THEN Throw(MSG_URL)
    ELSE IF ~detail.ok THEN detail
    ELSE IF StartsWith(url, "data:")
    THEN coerceDataUrlPart(url, detail.v, getDataUrlPayload(url))
    ELSE IF ~isHttpUrl(url) THEN Throw(MSG_URL)
    ELSE Ok([type |-> "image_url", image_url |-> [url |-> url, detail |-> detail.v]])

\* String(imagePart.url || '').trim() for the urls a JSON value can hold
TrimmedUrl(url) == IF IsString(url) THEN Trim(url.v) ELSE ""

\* one part of a multipart content
coercePart(part) ==
    IF Falsy(part) \/ ~IsObject(part) \/ part.t = "array" THEN Throw(MSG_INVALID)
    ELSE IF part.type = Str("text")
    THEN IF ~IsString(part.text) THEN Throw(TYPE_ERROR)
         ELSE coerceTextPart(sanitizeTextSegment(part.text.v))
    ELSE IF part.type = Str("image_url")
    THEN IF Falsy(part.image_url) \/ ~IsObject(part.image_url) THEN Throw(MSG_INVALID)
         ELSE IF part.image_url.url.t \notin {"undefined", "null", "string"}
         THEN Throw(TYPE_ERROR)
         ELSE coerceImagePart(TrimmedUrl(part.image_url.url),
                              normalizeDetail(part.image_url.detail))
    ELSE Throw(MSG_INVALID)

\* the for loop over rawContent: the first part that throws ends it
RECURSIVE coerceParts(_, _)
coercePartsStep(rawContent, parts, one) ==
    IF ~one.ok THEN one ELSE coerceParts(Tail(rawContent), Append(parts, one.v))
coerceParts(rawContent, parts) ==
    IF Len(rawContent) = 0 THEN Ok(parts)
    ELSE coercePartsStep(rawContent, parts, coercePart(Head(rawContent)))

\* the message of a text content once it is sanitized
coerceTextMessageLax(role, sanitized) ==
    IF Len(sanitized) > MAX_TEXT_CHARS THEN Throw(MSG_INVALID)
    ELSE Ok([role |-> role, content |-> Str(sanitized)])
coerceTextMessage(role, sanitized) ==
    IF sanitized = "" \/ Len(sanitized) > MAX_TEXT_CHARS THEN Throw(MSG_INVALID)
    ELSE Ok([role |-> role, content |-> Str(sanitized)])

\* the message of a multipart content once its parts are coerced
coercePartsMessage(role, parts) ==
    IF ~parts.ok THEN parts
    ELSE IF Len(parts.v) = 0 THEN Throw(MSG_INVALID)
    ELSE Ok([role |-> role, content |-> Arr(parts.v)])

coerceMessage(input) ==
    IF Falsy(input) \/ ~IsObject(input) THEN Throw(MSG_INVALID)
    ELSE IF input.t = "array" THEN Throw(MSG_ROLE)
    ELSE IF input.role \notin {Str("system"), Str("user"), Str("assistant")}
    THEN Throw(MSG_ROLE)
    ELSE IF IsString(input.content)
    THEN coerceTextMessage(input.role.v, sanitizeTextSegment(input.content.v))
    ELSE IF input.content.t # "array" THEN Throw(MSG_INVALID)
    ELSE coercePartsMessage(input.role.v, coerceParts(input.content.items, <<>>))

\* messages.map(coerceMessage): the first message that throws ends the map
RECURSIVE coerceAll(_, _)
coerceAllStep(messages, done, one) ==
    IF ~one.ok THEN one ELSE coerceAll(Tail(messages), Append(done, one.v))
coerceAll(messages, done) ==
    IF Len(messages) = 0 THEN Ok(done)
    ELSE coerceAllStep(messages, done, coerceMessage(Head(messages)))

\* content.filter(part.type === 'text').map(part.text)
RECURSIVE TextsOf(_)
TextsOf(parts) ==
    IF Len(parts) = 0 THEN <<>>
    ELSE IF Head(parts).type = "text" THEN <<Head(parts).text>> \o TextsOf(Tail(parts))
    ELSE TextsOf(Tail(parts))

extractTextSegments(content) ==
    IF IsString(content) THEN <<content.v>> ELSE TextsOf(content.items)

-----------------------------------------------------------------------------
(* The POST handler: its synchronous segments as functions *)

\* new URL(req.url).origin
ORIGIN == "https://example.com"

\* the error thrown by req.json() on a body that is no JSON text
BadJson == [t |-> "syntax-error"]

NoHeaders == <<>>

Body(model, temperature, systemPrompt, characterPrompt, messages, responseLevel, maxTokens) ==
    [t |-> "object", model |-> model, temperature |-> temperature,
     systemPrompt |-> systemPrompt, characterPrompt |-> characterPrompt,
     messages |-> messages, responseLevel |-> responseLevel, maxTokens |-> maxTokens]

\* body.key after the destructuring of a value that is not null
Field(body, key) == IF body.t = "object" THEN body[key] ELSE Undefined

\* the part of forwarded before its first comma
FirstEntry(forwarded) ==
    LET commas == {i \in 1..Len(forwarded) : SubSeq(forwarded, i, i) = ","}
    IN  IF commas = {} THEN forwarded
        ELSE SubSeq(forwarded, 1, (CHOOSE i \in commas : \A j \in commas : i <= j) - 1)

getClientId(r) ==
    IF ~Falsy(r.forwarded)
    THEN LET first == Trim(FirstEntry(r.forwarded.v))
         IN  IF first = "" THEN "unknown" ELSE first
    ELSE IF r.ip.t \in {"undefined", "null"} THEN "unknown" ELSE r.ip.v

\* NextResponse.json({error, code}, {status, headers})
jsonError(message, status, code, headers) ==
    [status |-> status,
     headers |-> ("Content-Type" :> "application/json") @@ headers,
     body |-> [kind |-> "json", error |-> message, code |-> code]]

\* the headers of a rejection by the rate limiter
RejectionHeaders(rateLimit) ==
    ("Retry-After" :> rateLimit.retryAfterSeconds)
    @@ ("RateLimit-Limit" :> rateLimit.limit)
    @@ ("RateLimit-Remaining" :> 0)
    @@ ("RateLimit-Reset" :> rateLimit.resetSeconds)

\* rateLimitHeaders as the handler sets it after an admission
AdmissionHeaders(rateLimit) ==
    ("RateLimit-Limit" :> rateLimit.limit)
    @@ ("RateLimit-Remaining" :> Max(0, rateLimit.remaining))
    @@ ("RateLimit-Reset" :> rateLimit.resetSeconds)

OriginForbiddenStrict(r) == r.origin # Str(ORIGIN)
OriginForbidden(r) == ~Falsy(r.origin) /\ r.origin # Str(ORIGIN)

UnsupportedMediaType(r) ==
    Falsy(r.contentType) \/ ~Includes(r.contentType.v, "application/json")

\* tokensForLevel(level) for a finite level
tokensForLevel(level) ==
    LET n == Max(1, Min(5, Floor(level)))
    IN  BASE * Pow2(n - 1)

resolveMaxTokensNoPriority(responseLevel, maxTokens) ==
    IF IsFiniteNumber(maxTokens)
    THEN Min(Max(Floor(maxTokens), MIN_OUTPUT_TOKENS), MAX_OUTPUT_TOKENS)
    ELSE IF IsFiniteNumber(responseLevel) THEN tokensForLevel(responseLevel)
    ELSE DEFAULT_OUTPUT_TOKENS
\* resolvedMaxTokens
resolveMaxTokens(responseLevel, maxTokens) ==
    IF IsFiniteNumber(responseLevel) THEN tokensForLevel(responseLevel)
    ELSE IF IsFiniteNumber(maxTokens)
    THEN Min(Max(Floor(maxTokens), MIN_OUTPUT_TOKENS), MAX_OUTPUT_TOKENS)
    ELSE DEFAULT_OUTPUT_TOKENS

\* Math.min(Math.max(typeof temperature === 'number' ? temperature : 0.8, 0), 2), in tenths
clampTemperature(temperature) ==
    IF temperature.t # "number" THEN 8
    ELSE IF ~temperature.fin THEN 20
    ELSE Min(Max(temperature.v10, 0), 20)

\* list.slice(-n)
SliceLast(list, n) == SubSeq(list, Max(1, Len(list) - n + 1), Len(list))

\* [...safeMsgs].reverse().find(msg.role === 'user'): its index, 0 if none
LastUserIndex(msgs) ==
    LET users == {i \in 1..Len(msgs) : msgs[i].role = "user"}
    IN  IF users = {} THEN 0 ELSE CHOOSE i \in users : \A j \in users : j <= i

\* the loop over textSegments: the message of the first guardOrThrow that throws
RECURSIVE guardSegments(_)
guardSegmentsFirstOnly(textSegments) ==
    IF Len(textSegments) = 0 THEN NoError ELSE guardOrThrow(Head(textSegments))
guardSegmentsStep(textSegments, reason) ==
    IF reason # NoError THEN reason ELSE guardSegments(Tail(textSegments))
guardSegments(textSegments) ==
    IF Len(textSegments) = 0 THEN NoError
    ELSE guardSegmentsStep(textSegments, guardOrThrow(Head(textSegments)))

\* finalMsgs
finalMessages(systemMsg, safeMsgs) == SliceLast(<<systemMsg>> \o safeMsgs, 51)

BadRequest(message) == [kind |-> "error", status |-> 400, code |-> "bad_request", message |-> message]
ServerError(message) ==
    [kind |-> "error", status |-> 500, code |-> "internal_server_error", message |-> message]

MSG_INTERNAL == "Error interno del servidor"

MSG_NO_KEY == "Configuración del servidor incompleta"

\* the call of fetch with the payload
postPayload(body, systemPromptValue, safeMsgs) ==
    [kind |-> "fetch",
     payload |->
         [model |-> body.model.v,
          temperature |-> clampTemperature(Field(body, "temperature")),
          stream |-> TRUE,
          messages |->
              finalMessages([role |-> "system", content |-> Str(systemPromptValue)],
                            safeMsgs),
          max_output_tokens |->
              resolveMaxTokens(Field(body, "responseLevel"), Field(body, "maxTokens"))]]

\* the payload posted whatever the key
buildPayloadAnyKey(body, key, systemPromptValue, safeMsgs) ==
    postPayload(body, systemPromptValue, safeMsgs)

\* POST once the guard has passed: the API key check and the payload
buildPayload(body, key, systemPromptValue, safeMsgs) ==
    IF key = "" THEN ServerError(MSG_NO_KEY)
    ELSE postPayload(body, systemPromptValue, safeMsgs)

\* POST once the newest user message is looked for: the guard over its text
guardVerdict(body, key, systemPromptValue, safeMsgs, reason) ==
    IF reason # NoError THEN BadRequest(reason)
    ELSE buildPayload(body, key, systemPromptValue, safeMsgs)
guardLastUser(body, key, systemPromptValue, safeMsgs, last) ==
    IF last = 0 THEN BadRequest("No hay mensaje de usuario")
    ELSE guardVerdict(body, key, systemPromptValue, safeMsgs,
                      guardSegments(extractTextSegments(safeMsgs[last].content)))

\* safeMsgs: the character prompt, if any, before the coerced messages
withCharacterPrompt(characterPromptValue, msgs) ==
    IF characterPromptValue # ""
    THEN <<[role |-> "system", content |-> Str(characterPromptValue)]>> \o msgs
    ELSE msgs

\* POST once safeMsgs is built
handleSafeMsgs(body, key, systemPromptValue, safeMsgs) ==
    guardLastUser(body, key, systemPromptValue, safeMsgs, LastUserIndex(safeMsgs))

\* POST once the messages are coerced
handleCoerced(body, key, systemPromptValue, characterPromptValue, coerced) ==
    IF ~coerced.ok THEN BadRequest(coerced.error)
    ELSE handleSafeMsgs(body, key, systemPromptValue,
                        withCharacterPrompt(characterPromptValue, coerced.v))

\* characterPromptValue
sanitizeCharacterPromptUncut(characterPrompt) ==
    IF IsString(characterPrompt) THEN sanitizePrompt(characterPrompt.v) ELSE ""
sanitizeCharacterPrompt(characterPrompt) ==
    IF IsString(characterPrompt)
    THEN SliceTo(sanitizePrompt(characterPrompt.v), MAX_PROMPT_CHARS) ELSE ""

\* POST once the system prompt is sanitized
handleMessages(body, key, systemPromptValue, messages) ==
    IF Len(systemPromptValue) = 0
    THEN BadRequest("systemPrompt inválido o demasiado largo")
    ELSE IF messages.t # "array" \/ Len(messages.items) = 0
            \/ Len(messages.items) > MAX_MESSAGES
    THEN BadRequest("messages inválido o demasiados elementos")
    ELSE handleCoerced(body, key, systemPromptValue,
                       sanitizeCharacterPrompt(Field(body, "characterPrompt")),
                       coerceAll(messages.items, <<>>))

\* POST once the body is destructured
handleFields(body, key, model, systemPrompt) ==
    IF Falsy(model) \/ ~IsString(model) \/ model.v \notin ALLOWED_MODELS
    THEN BadRequest("Modelo no válido")
    ELSE IF ~IsString(systemPrompt) \/ Len(systemPrompt.v) = 0
            \/ Len(systemPrompt.v) > MAX_PROMPT_CHARS
    THEN BadRequest("systemPrompt inválido o demasiado largo")
    ELSE handleMessages(body, key, sanitizePrompt(systemPrompt.v), Field(body, "messages"))

\* POST from the value of req.json() to the call of fetch: the error it
\* returns, or the payload it posts upstream
handleBodyParseChecked(body, key) ==
    IF body = BadJson THEN BadRequest("JSON inválido")
    ELSE IF body.t = "null" THEN ServerError(MSG_INTERNAL)
    ELSE handleFields(body, key, Field(body, "model"), Field(body, "systemPrompt"))
handleBody(body, key) ==
    IF body = BadJson \/ body.t = "null" THEN ServerError(MSG_INTERNAL)
    ELSE handleFields(body, key, Field(body, "model"), Field(body, "systemPrompt"))

-----------------------------------------------------------------------------
(* The upstream provider *)

\* fetch rejected (a network failure)
FetchRejected == [t |-> "rejected"]

\* a Response of the provider: its status, its body (Null or the chunks of a
\* stream) and what its json() gives (BadJson when it throws)
Upstream(status, body, json) == [t |-> "response", status |-> status, body |-> body, json |-> json]
Stream(chunks) == [t |-> "stream", chunks |-> chunks]

ResponseOk(r) == r.status >= 200 /\ r.status <= 299

\* the statuses a Response with a body cannot be built with
NullBodyStatus == {204, 205, 304}

MSG_UPSTREAM == "Error en la API de xAI"

\* the body of the 200 response
relayBody(upstream) == upstream.body

\* the rate limit headers spread into the 200 response
relayRateHeadersCurrent(own, current) == current
relayRateHeaders(own, current) == own

\* new NextResponse(apiRes.body, {status: 200, headers})
streamResponse(upstream, headers) ==
    [status |-> 200,
     headers |-> ("Content-Type" :> "text/event-stream")
                 @@ ("Cache-Control" :> "no-cache")
                 @@ ("Connection" :> "keep-alive")
                 @@ ("X-Robots-Tag" :> "noindex")
                 @@ headers,
     body |-> relayBody(upstream)]

\* the response to a provider answer that is not ok or has no body, once its
\* json() has settled
upstreamErrorUncaught(upstream, headers) ==
    jsonError(IF upstream.json # BadJson /\ upstream.json.t = "object"
                     /\ IsString(upstream.json.error)
              THEN upstream.json.error.v ELSE MSG_UPSTREAM,
              IF upstream.status = 0 THEN 502 ELSE upstream.status,
              "internal_server_error", headers)
upstreamError(upstream, headers) ==
    LET errorJson == upstream.json
        errorMessage ==
            IF errorJson # BadJson /\ errorJson.t = "object" /\ IsString(errorJson.error)
            THEN errorJson.error.v ELSE MSG_UPSTREAM
        status == IF upstream.status = 0 THEN 502 ELSE upstream.status
    IN  IF status \in NullBodyStatus
        THEN jsonError(MSG_INTERNAL, 500, "internal_server_error", headers)
        ELSE jsonError(errorMessage, status, "internal_server_error", headers)

-----------------------------------------------------------------------------
(* State *)

NoRequest == [t |-> "none"]
NoPayload == [t |-> "none"]
NoResponse == [t |-> "none"]
NoAdmission == [called |-> FALSE]

Request(origin, contentType, forwarded, ip, body) ==
    [t |-> "request", origin |-> origin, contentType |-> contentType,
     forwarded |-> forwarded, ip |-> ip, body |-> body]

\* the instants the clock takes
Offsets == {0, 1500}
Instants == {w * windowMs + o : w \in 0..MaxWindows, o \in Offsets}
\* the instants of the interleaved runs: the last of the first window and the
\* first of every window
ConcurrentInstants == {windowMs - 1} \cup {w * windowMs : w \in 0..MaxWindows}

\* the page before a message is submitted
NoClientError == [name |-> "", message |-> ""]
IdleClient ==
    [pc |-> "idle",          \* the await streamWithRetries is suspended at
     payload |-> "",         \* its argument payload
     attempt |-> 0,          \* its argument attempt
     controller |-> 0,       \* its AbortController, numbered from 1
     ref |-> 0,              \* abortControllerRef.current, 0 for null
     aborted |-> {},         \* the controllers whose abort() was called
     chunks |-> 0,           \* the parity of the number of chunks read
     error |-> NoClientError, \* the error the outermost call was rejected with
     isLoading |-> FALSE,    \* the state isLoading
     pageError |-> "",       \* the state error, "" for null
     messages |-> <<>>,      \* the state messages
     input |-> "",           \* the state input
     queuedImages |-> 0,     \* the number of images in the state queuedImages
     stoppedAt |-> "",       \* history: where the submission was when stopStreaming
                             \* was first invoked, "" for never
     attemptText |-> "",     \* history: the deltas appended since the last fetch
     requests |-> <<>>,      \* history: the body of each fetch of the submission
     waits |-> <<>>,         \* history: the ms of each delay
     failures |-> <<>>]      \* history: the errors caught that were no abort

\* no call of a function on its own
NoInput == [t |-> "none"]
NoOutput == [t |-> "none"]

\* the server before its first request
ServerInit ==
    /\ now = 0
    /\ rateState = <<>>
    /\ apiKey \in {"", "test-key"}
    /\ pc = [h \in Handlers |-> "idle"]
    /\ req = [h \in Handlers |-> NoRequest]
    /\ rateLimitHeaders = [h \in Handlers |-> NoHeaders]
    /\ sent = [h \in Handlers |-> NoPayload]
    /\ apiRes = [h \in Handlers |-> NoResponse]
    /\ resp = [h \in Handlers |-> NoResponse]
    /\ admission = [h \in Handlers |-> NoAdmission]
    /\ window = <<>>

Init ==
    /\ ServerInit
    /\ callInput = NoInput
    /\ callOutput = NoOutput
    /\ client = IdleClient

\* the entry of a client in the map, NoEntry if it has none
NoEntry == [count |-> 0, resetAt |-> 0]
EntryOf(rs, id) == IF id \in DOMAIN rs THEN rs[id] ELSE NoEntry

\* the history of a client after a call at time now: a window opens with the
\* first call and with the first call at or after the end of the last one, and
\* counts the calls and the admissions made before its end
WindowAfter(id, allowed) ==
    IF id \notin DOMAIN window \/ now >= window[id].resetAt
    THEN [resetAt |-> now + windowMs, calls |-> 1, admits |-> IF allowed THEN 1 ELSE 0]
    ELSE [window[id] EXCEPT !.calls = Min(@ + 1, limit + 1),
                            !.admits = IF allowed THEN Min(@ + 1, limit + 1) ELSE @]

\* POST up to await req.json(): the origin and content type checks and the
\* rate limiter
Start(h, r) ==
    /\ pc[h] = "idle"
    /\ req' = [req EXCEPT ![h] = r]
    /\ sent' = [sent EXCEPT ![h] = NoPayload]
    /\ apiRes' = [apiRes EXCEPT ![h] = NoResponse]
    /\ UNCHANGED <<now, apiKey, callVars, client>>
    /\ IF OriginForbidden(r)
       THEN /\ resp' = [resp EXCEPT ![h] =
                    jsonError("Acceso prohibido: Origen no autorizado", 403, "forbidden", NoHeaders)]
            /\ pc' = [pc EXCEPT ![h] = "done"]
            /\ rateLimitHeaders' = [rateLimitHeaders EXCEPT ![h] = NoHeaders]
            /\ admission' = [admission EXCEPT ![h] = NoAdmission]
            /\ UNCHANGED <<rateState, window>>
       ELSE IF UnsupportedMediaType(r)
       THEN /\ resp' = [resp EXCEPT ![h] =
                    jsonError("Content-Type debe ser application/json", 415,
                              "unsupported_media_type", NoHeaders)]
            /\ pc' = [pc EXCEPT ![h] = "done"]
            /\ rateLimitHeaders' = [rateLimitHeaders EXCEPT ![h] = NoHeaders]
            /\ admission' = [admission EXCEPT ![h] = NoAdmission]
            /\ UNCHANGED <<rateState, window>>
       ELSE LET clientId == getClientId(r)
                rl == applyRateLimit(rateState, now, clientId)
            IN  /\ rateState' = rl.rs
                /\ window' = MapSet(window, clientId, WindowAfter(clientId, rl.result.allowed))
                /\ admission' = [admission EXCEPT ![h] =
                        [called |-> TRUE, clientId |-> clientId, result |-> rl.result,
                         at |-> now, before |-> EntryOf(rateState, clientId),
                         after |-> EntryOf(rl.rs, clientId)]]
                /\ IF ~rl.result.allowed
                   THEN /\ resp' = [resp EXCEPT ![h] =
                                jsonError("Demasiadas solicitudes. Intenta de nuevo en unos segundos.",
                                          429, "rate_limited", RejectionHeaders(rl.result))]
                        /\ pc' = [pc EXCEPT ![h] = "done"]
                        /\ rateLimitHeaders' = [rateLimitHeaders EXCEPT ![h] = NoHeaders]
                   ELSE /\ rateLimitHeaders' = [rateLimitHeaders EXCEPT ![h] =
                                AdmissionHeaders(rl.result)]
                        /\ pc' = [pc EXCEPT ![h] = "json"]
                        /\ resp' = [resp EXCEPT ![h] = NoResponse]

\* req.json() settles: validation, guard and payload, up to await fetch
BodyParsed(h) ==
    /\ pc[h] = "json"
    /\ LET out == handleBody(req[h].body, apiKey)
       IN  IF out.kind = "error"
           THEN /\ resp' = [resp EXCEPT ![h] =
                        jsonError(out.message, out.status, out.code, rateLimitHeaders[h])]
                /\ pc' = [pc EXCEPT ![h] = "done"]
                /\ UNCHANGED sent
           ELSE /\ sent' = [sent EXCEPT ![h] = out.payload]
                /\ pc' = [pc EXCEPT ![h] = "fetch"]
                /\ UNCHANGED resp
    /\ UNCHANGED <<now, rateState, apiKey, req, rateLimitHeaders, apiRes, admission, window,
                   callVars, client>>

\* the headers of this client as a call of the rate limiter would give them now
CurrentHeaders(h) ==
    LET id == admission[h].clientId
    IN  IF id \in DOMAIN rateState
        THEN ("RateLimit-Limit" :> limit)
             @@ ("RateLimit-Remaining" :> Max(0, limit - rateState[id].count))
             @@ ("RateLimit-Reset" :> Max(1, CeilDiv(rateState[id].resetAt - now, 1000)))
        ELSE rateLimitHeaders[h]

\* fetch settles: the stream is relayed, or the error body is awaited
FetchSettled(h, upstream) ==
    /\ pc[h] = "fetch"
    /\ apiRes' = [apiRes EXCEPT ![h] = upstream]
    /\ IF upstream = FetchRejected
       THEN /\ resp' = [resp EXCEPT ![h] =
                    jsonError(MSG_INTERNAL, 500, "internal_server_error", rateLimitHeaders[h])]
            /\ pc' = [pc EXCEPT ![h] = "done"]
       ELSE IF ~ResponseOk(upstream) \/ upstream.body = Null
       THEN /\ pc' = [pc EXCEPT ![h] = "errorJson"]
            /\ UNCHANGED resp
       ELSE /\ resp' = [resp EXCEPT ![h] =
                    streamResponse(upstream,
                                   relayRateHeaders(rateLimitHeaders[h], CurrentHeaders(h)))]
            /\ pc' = [pc EXCEPT ![h] = "done"]
    /\ UNCHANGED <<now, rateState, apiKey, req, rateLimitHeaders, sent, admission, window,
                   callVars, client>>

\* apiRes.json() settles: the error response
ErrorBodyRead(h) ==
    /\ pc[h] = "errorJson"
    /\ resp' = [resp EXCEPT ![h] = upstreamError(apiRes[h], rateLimitHeaders[h])]
    /\ pc' = [pc EXCEPT ![h] = "done"]
    /\ UNCHANGED <<now, rateState, apiKey, req, rateLimitHeaders, sent, apiRes, admission, window,
                   callVars, client>>

\* the response has been returned: the handler is free for the next request
Finish(h) ==
    /\ pc[h] = "done"
    /\ pc' = [pc EXCEPT ![h] = "idle"]
    /\ req' = [req EXCEPT ![h] = NoRequest]
    /\ rateLimitHeaders' = [rateLimitHeaders EXCEPT ![h] = NoHeaders]
    /\ sent' = [sent EXCEPT ![h] = NoPayload]
    /\ apiRes' = [apiRes EXCEPT ![h] = NoResponse]
    /\ resp' = [resp EXCEPT ![h] = NoResponse]
    /\ admission' = [admission EXCEPT ![h] = NoAdmission]
    /\ UNCHANGED <<now, rateState, apiKey, window, callVars, client>>

\* time passes
Tick(t) ==
    /\ t > now
    /\ now' = t
    /\ UNCHANGED <<rateState, apiKey, pc, req, rateLimitHeaders, sent, apiRes, resp,
                   admission, window, callVars, client>>

-----------------------------------------------------------------------------
(* Inputs *)

SameOrigin == Str(ORIGIN)
ForeignOrigin == Str("https://evil.example")
JsonType == Str("application/json")
JsonCharsetType == Str("application/json; charset=utf-8")
TextType == Str("text/plain")
ForwardedA == Str("10.0.0.1, 10.9.9.9")

GoodModel == Str("grok-4-fast-reasoning")
BadModel == Str("gpt-4")
GoodPrompt == Str("hola")

User(text) == RawMessage(Str("user"), Str(text))
Assistant(text) == RawMessage(Str("assistant"), Str(text))
UserParts(parts) == RawMessage(Str("user"), Arr(parts))
HttpsImage == RawImage(Str("https://example.com/a.png"), Str("high"))
DataImage == RawImage(Str("data:image/png;base64,iVBORw0KGgo="), Undefined)

\* message lists that pass every check
HolaMessages == Arr(<<User("hola")>>)
OlderViolationMessages == Arr(<<User("loli"), Assistant("no"), User("hola")>>)
MultipartMessages == Arr(<<UserParts(<<RawText(Str("mira esto")), HttpsImage, DataImage>>)>>)
ImageOnlyMessages == Arr(<<UserParts(<<HttpsImage>>)>>)
FiftyMessages == Arr([i \in 1..MAX_MESSAGES |-> IF i % 2 = 1 THEN User("hola") ELSE Assistant("ok")])
GoodMessageLists ==
    {HolaMessages, OlderViolationMessages, MultipartMessages, ImageOnlyMessages, FiftyMessages}

\* message lists the count check rejects
EmptyMessages == Arr(<<>>)
FiftyOneMessages == Arr([i \in 1..(MAX_MESSAGES + 1) |-> User("hola")])
MiscountedMessageLists == {Undefined, Str("hola"), EmptyMessages, FiftyOneMessages}

\* message lists with a message that coerceMessage rejects
UncoercibleMessageLists ==
    {Arr(<<User("hola"), RawMessage(Str("tool"), Str("hola"))>>),
     Arr(<<User(Repeat("a", MAX_TEXT_CHARS + 1))>>),
     Arr(<<User("\f")>>),
     Arr(<<Null>>),
     Arr(<<UserParts(<<>>)>>),
     Arr(<<UserParts(<<RawText(Undefined)>>)>>),
     Arr(<<UserParts(<<RawImage(Str("ftp://example.com/a.png"), Undefined)>>)>>),
     Arr(<<User("loli"), RawMessage(Str("user"), Num(10))>>),
     Arr(<<User("")>>),
     Arr(<<UserParts(<<RawText(Str("hola")), [t |-> "object", type |-> Str("audio")]>>)>>),
     Arr(<<UserParts(<<RawImage(Undefined, Str("low"))>>)>>),
     Arr(<<UserParts(<<RawImage(Str("data:image/gif;base64,R0lGODlh"), Undefined)>>)>>),
     Arr(<<UserParts(<<RawImage(Str("data:image/png;base64,iVBO*w0K"), Undefined)>>)>>)}

\* message lists without a message of the user
UserlessMessageLists ==
    {Arr(<<Assistant("hola")>>),
     Arr(<<RawMessage(Str("system"), Str("hola")), Assistant("loli")>>)}

\* message lists whose newest user message has a segment the guard rejects
ViolatingMessageLists ==
    {Arr(<<User("loli")>>),
     Arr(<<User("hola"), Assistant("ok"), User("tengo 15 yrs")>>),
     Arr(<<UserParts(<<RawText(Str("hola")), HttpsImage, RawText(Str("incesto"))>>)>>),
     Arr(<<UserParts(<<RawText(Str("l0l\f1")), RawText(Str("hola"))>>), Assistant("doxxing")>>)}

GoodBody(messages) ==
    Body(GoodModel, Num(8), GoodPrompt, Undefined, messages, Undefined, Undefined)

\* one passing and one failing value for every stage, in every combination
StageBodies ==
    {BadJson}
    \cup {Body(m, Undefined, p, Undefined, l, Undefined, Undefined) :
            m \in {GoodModel, BadModel},
            p \in {GoodPrompt, Str("")},
            l \in {HolaMessages, EmptyMessages, Arr(<<Null>>),
                   Arr(<<Assistant("hola")>>), Arr(<<User("loli")>>)}}

StageRequests ==
    {Request(o, c, ForwardedA, Undefined, b) :
        o \in {SameOrigin, ForeignOrigin}, c \in {JsonType, TextType}, b \in StageBodies}

\* every kind of message list
MessageRequests ==
    {Request(SameOrigin, JsonType, ForwardedA, Undefined, GoodBody(l)) :
        l \in GoodMessageLists \cup MiscountedMessageLists \cup UncoercibleMessageLists
              \cup UserlessMessageLists \cup ViolatingMessageLists}

\* the prompts
SystemPrompts ==
    {Undefined, Num(10), Str(""), Str(" \n\t "), Str("  hola\n"),
     Str(Repeat("a", MAX_PROMPT_CHARS)), Str(Repeat("a", MAX_PROMPT_CHARS + 1)),
     Str(Repeat("a", MAX_PROMPT_CHARS) \o "\n")}
CharacterPrompts ==
    {Undefined, Num(10), Str(""), Str(" \n"), Str("  voz heroica \f\n"),
     Str(Repeat("b", MAX_PROMPT_CHARS + 1))}

PromptRequests ==
    {Request(SameOrigin, JsonType, ForwardedA, Undefined,
             Body(GoodModel, Undefined, p, c, l, Undefined, Undefined)) :
        p \in {GoodPrompt}, c \in CharacterPrompts,
        l \in {HolaMessages, FiftyMessages, Arr(<<Assistant("hola")>>)}}
    \cup {Request(SameOrigin, JsonType, ForwardedA, Undefined,
                  Body(GoodModel, Undefined, p, c, HolaMessages, Undefined, Undefined)) :
            p \in SystemPrompts, c \in {Undefined, Str("  voz heroica \f\n")}}

\* the token budget
ResponseLevels ==
    {Undefined, Str("4"), Infinity, Num(-10), Num(0), Num(10), Num(20), Num(25),
     Num(30), Num(40), Num(50), Num(59), Num(90)}
MaxTokenValues ==
    {Undefined, Str("256"), Infinity, Num(1270), Num(10005), Num(20490), Num(99990)}

TokenBody(r, m) == Body(GoodModel, Num(8), GoodPrompt, Undefined, HolaMessages, r, m)

\* every level with and without maxTokens, every maxTokens without a level
TokenRequests ==
    {Request(SameOrigin, JsonType, ForwardedA, Undefined, TokenBody(r, m)) :
        r \in ResponseLevels, m \in {Undefined, Num(1270)}}
    \cup {Request(SameOrigin, JsonType, ForwardedA, Undefined, TokenBody(r, m)) :
            r \in {Undefined, Str("4"), Infinity}, m \in MaxTokenValues}

\* the headers and the shape of the body
HeaderRequests ==
    {Request(o, c, f, i, b) :
        o \in {Null, Str(""), ForeignOrigin},
        c \in {Null, Str(""), JsonCharsetType, TextType},
        f \in {ForwardedA},
        i \in {Undefined},
        b \in {GoodBody(HolaMessages)}}
    \cup {Request(SameOrigin, JsonType, f, i, GoodBody(HolaMessages)) :
            f \in {Null, Str(""), Str("10.0.0.1"), Str(" 10.0.0.1 ,10.9.9.9")},
            i \in {Str("10.0.0.1")}}
    \cup {Request(SameOrigin, JsonType, ForwardedA, Undefined, b) :
            b \in {BadJson, Null, Num(10), Arr(<<>>),
                   Body(Undefined, Num(30), GoodPrompt, Undefined, HolaMessages, Undefined, Undefined),
                   Body(GoodModel, Num(30), GoodPrompt, Undefined, HolaMessages, Undefined, Undefined),
                   Body(GoodModel, Num(-5), GoodPrompt, Undefined, HolaMessages, Undefined, Undefined),
                   Body(Str("grok-4-fast-non-reasoning"), Str("1"), GoodPrompt, Undefined,
                        HolaMessages, Undefined, Undefined)}}

Requests ==
    StageRequests \cup MessageRequests \cup PromptRequests \cup TokenRequests \cup HeaderRequests

\* the streams and errors of the provider
StreamA == Stream(<<"data: {\"choices\":[{\"delta\":{\"content\":\"hola\"}}]}\n\n", "data: [DONE]\n\n">>)
ErrorJson(error) == [t |-> "object", error |-> error]

Upstreams ==
    {FetchRejected,
     Upstream(200, StreamA, BadJson),
     Upstream(200, Null, BadJson),
     Upstream(204, Null, BadJson),
     Upstream(401, Stream(<<"{\"error\":\"Invalid API key\"}">>), ErrorJson(Str("Invalid API key"))),
     Upstream(429, Stream(<<"slow down">>), BadJson),
     Upstream(503, Stream(<<"{\"error\":{}}">>), ErrorJson(ErrorJson(Null))),
     Upstream(0, Null, BadJson)}

\* the requests and provider answers of the interleaved runs
ConcurrentRequests ==
    {Request(SameOrigin, JsonType, ForwardedA, Undefined, GoodBody(l)) :
        l \in {HolaMessages, Arr(<<User("loli")>>)}}

\* the requests of the runs over every instant
ClockRequests ==
    {Request(SameOrigin, JsonType, f, Undefined, GoodBody(HolaMessages)) :
        f \in {ForwardedA, Null}}

ConcurrentUpstreams ==
    {Upstream(200, StreamA, BadJson),
     Upstream(503, Stream(<<"{\"error\":{}}">>), ErrorJson(ErrorJson(Null)))}

-----------------------------------------------------------------------------
(* Specifications *)

\* one handler at a time, every request, whole windows of time
Next ==
    \/ \E r \in Requests : Start(1, r)
    \/ BodyParsed(1)
    \/ \E u \in Upstreams : FetchSettled(1, u)
    \/ ErrorBodyRead(1)
    \/ Finish(1)
    \/ \E w \in 0..MaxWindows : Tick(w * windowMs)

Spec == Init /\ [][Next]_vars

\* one handler at a time, one client, the clock at every instant
NextClock ==
    \/ \E r \in ClockRequests : Start(1, r)
    \/ BodyParsed(1)
    \/ \E u \in ConcurrentUpstreams : FetchSettled(1, u)
    \/ ErrorBodyRead(1)
    \/ Finish(1)
    \/ \E t \in Instants : Tick(t)

SpecClock == Init /\ [][NextClock]_vars

\* handlers interleaved at their awaits
NextConcurrent ==
    \/ \E h \in Handlers, r \in ConcurrentRequests : Start(h, r)
    \/ \E h \in Handlers : BodyParsed(h)
    \/ \E h \in Handlers, u \in ConcurrentUpstreams : FetchSettled(h, u)
    \/ \E h \in Handlers : ErrorBodyRead(h)
    \/ \E h \in Handlers : Finish(h)
    \/ \E t \in ConcurrentInstants : Tick(t)

\* the server of the interleaved runs has its API key
InitConcurrent == Init /\ apiKey = "test-key"

SpecConcurrent == InitConcurrent /\ [][NextConcurrent]_vars

-----------------------------------------------------------------------------
(* Properties of the rate limiter *)

RateHeaderNames == {"RateLimit-Limit", "RateLimit-Remaining", "RateLimit-Reset"}

\* seconds is the least whole number of seconds, at least 1, that covers ms
CoversMs(seconds, ms) ==
    /\ seconds >= 1
    /\ seconds * 1000 >= ms
    /\ seconds > 1 => (seconds - 1) * 1000 < ms

\* C1: with limit 10 and a window of 60000 ms, the k-th call of a client
\* inside one window, k <= 10, is admitted and reports remaining = 10 - k, so
\* that a first response of status 200 has RateLimit-Remaining 9; every call
\* after the 10th inside the window is rejected with retryAfterSeconds in 1..60.
C1_TenAdmittedThenRejected ==
    admission[1].called =>
        LET k == window[admission[1].clientId].calls
            result == admission[1].result
        IN  /\ limit = 10 /\ windowMs = 60000
            /\ k <= 10 => result.allowed /\ result.remaining = 10 - k
            /\ k > 10 => ~result.allowed /\ result.retryAfterSeconds \in 1..60
            /\ (k = 1 /\ pc[1] = "done" /\ resp[1].status = 200)
                   => resp[1].headers["RateLimit-Remaining"] = 9

\* the 11th call of a window, made 1500 ms after its first, is told to retry in 59 s
C1_EleventhRejected ==
    /\ admission[1].called
    /\ window[admission[1].clientId].calls = 11
    /\ window[admission[1].clientId].admits = 10
    /\ ~admission[1].result.allowed
    /\ admission[1].result.retryAfterSeconds = 59
    /\ \E id \in DOMAIN window : id # admission[1].clientId /\ window[id].calls = 2

\* C2: a call made at or after the resetAt of the client's entry is admitted
\* with remaining = limit - 1 and leaves the entry {count: 1, resetAt: now +
\* windowMs}, whatever the count of the expired entry.
C2_FreshWindowAfterExpiry ==
    \A h \in Handlers :
        (admission[h].called /\ admission[h].before # NoEntry
         /\ admission[h].at >= admission[h].before.resetAt)
        => /\ admission[h].result.allowed
           /\ admission[h].result.remaining = limit - 1
           /\ admission[h].after = [count |-> 1, resetAt |-> admission[h].at + windowMs]

\* a call that finds the expired entry of a window used up to its limit
C2_ExpiredFullWindow ==
    /\ admission[1].called
    /\ admission[1].before.count = limit
    /\ admission[1].at >= admission[1].before.resetAt
    /\ admission[1].after.count = 1

\* two handlers whose calls of the rate limiter fall in the same window of the
\* same client
SameWindow(g, h) ==
    /\ admission[g].called /\ admission[h].called
    /\ admission[g].clientId = admission[h].clientId
    /\ admission[g].after.resetAt = admission[h].after.resetAt

\* the count a call found inside the window, 0 for the call that opened it
Observed(h) ==
    IF admission[h].before.resetAt = admission[h].after.resetAt
    THEN admission[h].before.count ELSE 0

\* C3: with handlers of one client interleaved at their awaits, no two
\* handlers admitted in the same window observed the same count before their
\* increment, each left the count it observed plus one, and the admissions of
\* one window never exceed limit.
C3_AtomicCheckAndIncrement ==
    /\ \A id \in DOMAIN window : window[id].admits <= limit
    /\ \A h \in Handlers :
           (admission[h].called /\ admission[h].result.allowed)
           => admission[h].after.count = Observed(h) + 1
    /\ \A g, h \in Handlers :
           (g # h /\ SameWindow(g, h)
            /\ admission[g].result.allowed /\ admission[h].result.allowed)
           => Observed(g) # Observed(h)

\* handler 1 awaits the provider and handler 2 its body, both admitted in the
\* same window, handler 2 with the last admission of the window
C3_TwoInFlight ==
    /\ pc[1] = "fetch" /\ pc[2] = "json"
    /\ SameWindow(1, 2)
    /\ Observed(1) = limit - 2
    /\ Observed(2) = limit - 1
    /\ window[admission[1].clientId].admits = limit

\* C5: a request the rate limiter rejects is answered 429 with Retry-After =
\* retryAfterSeconds = max(1, ceil((resetAt - now) / 1000)), RateLimit-Limit =
\* limit, RateLimit-Remaining = 0 and RateLimit-Reset = Retry-After; the entry
\* of the client is left as it was and nothing is sent upstream.
C5_RejectionResponse ==
    (admission[1].called /\ ~admission[1].result.allowed)
    => /\ pc[1] = "done"
       /\ resp[1].status = 429
       /\ resp[1].headers["Retry-After"] = admission[1].result.retryAfterSeconds
       /\ CoversMs(resp[1].headers["Retry-After"],
                   admission[1].before.resetAt - admission[1].at)
       /\ resp[1].headers["RateLimit-Limit"] = limit
       /\ resp[1].headers["RateLimit-Remaining"] = 0
       /\ resp[1].headers["RateLimit-Reset"] = resp[1].headers["Retry-After"]
       /\ admission[1].after = admission[1].before
       /\ sent[1] = NoPayload
       /\ apiRes[1] = NoResponse

\* a rejection 58500 ms before the end of the window
C5_RejectedMidWindow ==
    /\ pc[1] = "done"
    /\ admission[1].called /\ ~admission[1].result.allowed
    /\ admission[1].before.resetAt - admission[1].at = 58500
    /\ resp[1].status = 429
    /\ resp[1].headers["Retry-After"] = 59

\* C6: every response, whatever its status, has the headers RateLimit-Limit,
\* RateLimit-Remaining and RateLimit-Reset.
C6_EveryResponseHasRateLimitHeaders ==
    \A h \in Handlers :
        pc[h] = "done" => RateHeaderNames \subseteq DOMAIN resp[h].headers

-----------------------------------------------------------------------------
(* Properties of the request pipeline *)

\* the message list of a request, Undefined if its body has none
MessagesOf(r) == IF r.body.t = "object" THEN r.body.messages ELSE Undefined

\* the text segments of the newest user message of a list sent upstream
NewestUserSegments(msgs) ==
    LET users == {i \in 1..Len(msgs) : msgs[i].role = "user"}
        newest == CHOOSE i \in users : \A j \in users : j <= i
    IN  IF users = {} THEN {}
        ELSE IF msgs[newest].content.t = "string" THEN {msgs[newest].content.v}
        ELSE {msgs[newest].content.items[k].text :
                 k \in {n \in 1..Len(msgs[newest].content.items) :
                           msgs[newest].content.items[n].type = "text"}}

\* a payload is sent only with a user message all of whose segments pass
GuardedPayload(h) ==
    sent[h] # NoPayload =>
        /\ \E i \in 1..Len(sent[h].messages) : sent[h].messages[i].role = "user"
        /\ \A segment \in NewestUserSegments(sent[h].messages) :
               guardOrThrow(segment) = NoError
        /\ MessagesOf(req[h]) \notin ViolatingMessageLists \cup UserlessMessageLists

\* the request of a finished handler has no user message, or a newest user
\* message with a segment that violates a rule
Unguardable(h) ==
    /\ pc[h] = "done"
    /\ MessagesOf(req[h]) \in ViolatingMessageLists \cup UserlessMessageLists

ValidModels == {GoodModel, Str("grok-4-fast-non-reasoning")}
ValidSystemPrompts == {GoodPrompt, Str("  hola\n"), Str(Repeat("a", MAX_PROMPT_CHARS))}

\* the first stage of the validation of a body that fails, "pass" if none
StageOfBody(b) ==
    IF b \in {BadJson, Null} THEN "parse"
    ELSE IF b.t # "object" \/ b.model \notin ValidModels THEN "model"
    ELSE IF b.systemPrompt \notin ValidSystemPrompts THEN "systemPrompt"
    ELSE IF b.messages \in MiscountedMessageLists THEN "count"
    ELSE IF b.messages \in UncoercibleMessageLists THEN "coercion"
    ELSE IF b.messages \in UserlessMessageLists \cup ViolatingMessageLists THEN "guard"
    ELSE IF b.messages \in GoodMessageLists THEN "pass"
    ELSE "unclassified"

\* the first stage that fails for the request of a finished handler, in the
\* order of the pipeline, "relay" if none
FirstFailingStage(h) ==
    IF req[h].origin = ForeignOrigin THEN "origin"
    ELSE IF req[h].contentType \in {Null, Str(""), TextType} THEN "contentType"
    ELSE IF window[getClientId(req[h])].calls > limit THEN "rateLimit"
    ELSE IF StageOfBody(req[h].body) # "pass" THEN StageOfBody(req[h].body)
    ELSE IF apiKey = "" THEN "apiKey"
    ELSE IF apiRes[h] = FetchRejected \/ ~ResponseOk(apiRes[h]) \/ apiRes[h].body = Null
    THEN "upstream"
    ELSE "relay"

GuardErrors ==
    {"No hay mensaje de usuario", REASON_UNDERAGE, REASON_AGE, REASON_HARD,
     REASON_DOXXING, REASON_LIKENESS}
CoercionErrors == {TYPE_ERROR, MSG_INVALID, MSG_ROLE, MSG_URL, MSG_DATA_URL, MSG_TOO_BIG}

\* the response is the one of the stage, and no later stage has run;
\* upstreamStatus is the status of a failure of the upstream call
AnswersStage(h, stage, upstreamStatus) ==
    /\ stage \in {"origin", "contentType"} => ~admission[h].called
    /\ stage \notin {"upstream", "relay"} => sent[h] = NoPayload /\ apiRes[h] = NoResponse
    /\ stage \in {"upstream", "relay"} => sent[h] # NoPayload /\ apiRes[h] # NoResponse
    /\ CASE stage = "origin" -> resp[h].status = 403 /\ resp[h].body.code = "forbidden"
         [] stage = "contentType" ->
                resp[h].status = 415 /\ resp[h].body.code = "unsupported_media_type"
         [] stage = "rateLimit" -> resp[h].status = 429 /\ resp[h].body.code = "rate_limited"
         [] stage = "parse" -> resp[h].status = 500 /\ resp[h].body.error = MSG_INTERNAL
         [] stage = "model" -> resp[h].status = 400 /\ resp[h].body.error = "Modelo no válido"
         [] stage = "systemPrompt" ->
                /\ resp[h].status = 400
                /\ resp[h].body.error = "systemPrompt inválido o demasiado largo"
         [] stage = "count" ->
                /\ resp[h].status = 400
                /\ resp[h].body.error = "messages inválido o demasiados elementos"
         [] stage = "coercion" ->
                resp[h].status = 400 /\ resp[h].body.error \in CoercionErrors
         [] stage = "guard" -> resp[h].status = 400 /\ resp[h].body.error \in GuardErrors
         [] stage = "apiKey" ->
                /\ resp[h].status = 500
                /\ resp[h].body.error = "Configuración del servidor incompleta"
         [] stage = "upstream" ->
                resp[h].status = upstreamStatus /\ resp[h].body.kind = "json"
         [] stage = "relay" -> resp[h].status = 200 /\ resp[h].body = apiRes[h].body
         [] OTHER -> FALSE

C8_SystemMessageFirst ==
    sent[1] # NoPayload =>
        /\ Len(req[1].body.messages.items) \in 1..MAX_MESSAGES
        /\ sent[1].messages[1] =
               [role |-> "system", content |-> Str(sanitizePrompt(req[1].body.systemPrompt.v))]

\* 50 messages and a character prompt: the 51 entries sent upstream begin with
\* the character prompt, the system message is gone
C8_SystemMessageDropped ==
    /\ sent[1] # NoPayload
    /\ req[1].body.systemPrompt = GoodPrompt
    /\ req[1].body.characterPrompt = Str("  voz heroica \f\n")
    /\ req[1].body.messages = FiftyMessages
    /\ Len(sent[1].messages) = 51
    /\ sent[1].messages[1] = [role |-> "system", content |-> Str("voz heroica")]
    /\ \A i \in 1..51 : sent[1].messages[i].content # Str("hola") \/ sent[1].messages[i].role = "user"

\* the provider answered with a status of 200 to 299 and a body
Succeeded(h) ==
    /\ pc[h] = "done"
    /\ apiRes[h] \notin {NoResponse, FetchRejected}
    /\ apiRes[h].status \in 200..299
    /\ apiRes[h].body # Null

\* C9: on the success path the response has status 200, the chunks of the
\* provider's body unchanged and in order, Content-Type text/event-stream,
\* Cache-Control no-cache, and the RateLimit-* values of this request's own
\* admission, whatever other requests of the client were admitted meanwhile.
C9_RelayUnchanged ==
    \A h \in Handlers :
        Succeeded(h) =>
            /\ resp[h].status = 200
            /\ resp[h].body = apiRes[h].body
            /\ resp[h].headers["Content-Type"] = "text/event-stream"
            /\ resp[h].headers["Cache-Control"] = "no-cache"
            /\ admission[h].called /\ admission[h].result.allowed
            /\ resp[h].headers["RateLimit-Limit"] = limit
            /\ resp[h].headers["RateLimit-Remaining"] = limit - admission[h].after.count
            /\ CoversMs(resp[h].headers["RateLimit-Reset"],
                        admission[h].after.resetAt - admission[h].at)

\* handler 1 has relayed the stream with the values of its admission, the
\* first of the window, after handler 2 was admitted in the same window
C9_AdmittedMeanwhile ==
    /\ Succeeded(1)
    /\ resp[1].body = StreamA
    /\ resp[1].headers["RateLimit-Remaining"] = limit - 1
    /\ SameWindow(1, 2)
    /\ admission[2].result.allowed
    /\ rateState[admission[1].clientId].count > admission[1].after.count
    /\ now < admission[1].after.resetAt

\* 128 * 2 ^ (n - 1) for the level clamped to 1..5
LevelTokens(level) ==
    LET n == IF level < 1 THEN 1 ELSE IF level > 5 THEN 5 ELSE level
    IN  128 * (2 ^ (n - 1))

\* the largest integer that is at most tenths / 10
FloorOfTenths(tenths) ==
    CHOOSE n \in ((tenths \div 10) - 1)..((tenths \div 10) + 1) :
        10 * n <= tenths /\ tenths < 10 * (n + 1)

\* C10: max_output_tokens is 128 * 2^(clamp(floor(L), 1, 5) - 1) for a finite
\* number responseLevel L, whatever maxTokens is; else clamp(floor(maxTokens),
\* 128, 2048) for a finite number maxTokens; else 512; it is always in 128..2048.
C10_TokenBudget ==
    sent[1] # NoPayload =>
        LET level == req[1].body.responseLevel
            tokens == req[1].body.maxTokens
            out == sent[1].max_output_tokens
        IN  /\ out \in 128..2048
            /\ IsFiniteNumber(level) => out = LevelTokens(FloorOfTenths(level.v10))
            /\ level = Num(0) => out = 128
            /\ level = Num(90) => out = 2048
            /\ level \in {Num(10), Num(20), Num(30), Num(40), Num(50)}
                   => out = 128 * (2 ^ ((level.v10 \div 10) - 1))
            /\ (~IsFiniteNumber(level) /\ IsFiniteNumber(tokens))
                   => /\ out >= FloorOfTenths(tokens.v10) \/ out = 2048
                      /\ out <= FloorOfTenths(tokens.v10) \/ out = 128
            /\ (~IsFiniteNumber(level) /\ tokens = Num(99990)) => out = 2048
            /\ (~IsFiniteNumber(level) /\ ~IsFiniteNumber(tokens)) => out = 512

\* a level of 9 with a maxTokens of 127: the level decides, 2048
C10_LevelOverridesMaxTokens ==
    /\ sent[1] # NoPayload
    /\ req[1].body.responseLevel = Num(90)
    /\ req[1].body.maxTokens = Num(1270)
    /\ sent[1].max_output_tokens = 2048

-----------------------------------------------------------------------------
(* Properties of the assembly of the outbound list *)

\* the text of the character prompts of the requests once control characters
\* are stripped and the ends trimmed, "" for the others
CharacterText(c) ==
    CASE c = Str("  voz heroica \f\n") -> "voz heroica"
      [] c = Str(Repeat("b", MAX_PROMPT_CHARS + 1)) -> Repeat("b", MAX_PROMPT_CHARS)
      [] OTHER -> ""

\* the outbound list the request is to give for a coerced conversation
ExpectedOutbound(body, conversation) ==
    <<[role |-> "system", content |-> Str(sanitizePrompt(body.systemPrompt.v))]>>
    \o (IF CharacterText(body.characterPrompt) # ""
        THEN <<[role |-> "system", content |-> Str(CharacterText(body.characterPrompt))]>>
        ELSE <<>>)
    \o conversation

\* C11: the outbound list is the system prompt message, then the character
\* prompt as a system message when characterPrompt is a string that is not
\* empty once sanitized, then the coerced conversation in its order; without
\* such a character prompt nothing is injected.
C11_CharacterPromptInjected ==
    sent[1] # NoPayload =>
        sent[1].messages =
            ExpectedOutbound(req[1].body, coerceAll(req[1].body.messages.items, <<>>).v)

\* 50 messages and a character prompt: the outbound list is the character
\* prompt and the conversation, without the system prompt message
C11_OutboundWithoutSystemPrompt ==
    /\ sent[1] # NoPayload
    /\ req[1].body.messages = FiftyMessages
    /\ CharacterText(req[1].body.characterPrompt) = "voz heroica"
    /\ sent[1].messages =
           Tail(ExpectedOutbound(req[1].body, coerceAll(FiftyMessages.items, <<>>).v))

-----------------------------------------------------------------------------
(* Properties of the coercion of messages *)

\* the response carries the RateLimit-* values of the handler's own admission
AdmissionRateHeaders(h) ==
    /\ RateHeaderNames \subseteq DOMAIN resp[h].headers
    /\ resp[h].headers["RateLimit-Limit"] = limit
    /\ resp[h].headers["RateLimit-Remaining"] = limit - admission[h].after.count
    /\ CoversMs(resp[h].headers["RateLimit-Reset"],
                admission[h].after.resetAt - admission[h].at)

\* the request of an admitted handler has a message that cannot be coerced, or
\* a message list that is empty or longer than 50
Uncoercible(h) ==
    /\ admission[h].called /\ admission[h].result.allowed
    /\ MessagesOf(req[h]) \in UncoercibleMessageLists \cup {EmptyMessages, FiftyOneMessages}

\* C12: an admitted request with a message that fails coercion, or with a
\* message list that is empty or longer than 50, is answered 400 bad_request
\* with the RateLimit-* headers of its admission, and nothing is sent upstream.
C12_UncoercibleRejected ==
    /\ Uncoercible(1) => sent[1] = NoPayload /\ apiRes[1] = NoResponse /\ pc[1] \in {"json", "done"}
    /\ (Uncoercible(1) /\ pc[1] = "done") =>
           /\ resp[1].status = 400
           /\ resp[1].body.code = "bad_request"
           /\ AdmissionRateHeaders(1)

\* a message with a data URL of a type that is not png or jpeg is answered 400
\* with the error of the malformed data URL
C12_MalformedDataUrlRejected ==
    /\ pc[1] = "done"
    /\ MessagesOf(req[1]) =
           Arr(<<UserParts(<<RawImage(Str("data:image/gif;base64,R0lGODlh"), Undefined)>>)>>)
    /\ resp[1].status = 400
    /\ resp[1].body.error = MSG_DATA_URL
    /\ AdmissionRateHeaders(1)
    /\ sent[1] = NoPayload

-----------------------------------------------------------------------------
(* coerceMessage called on its own *)

\* the JSON value of a coerced part and of a coerced message
AsRawPart(part) ==
    IF part.type = "text" THEN RawText(Str(part.text))
    ELSE RawImage(Str(part.image_url.url), Str(part.image_url.detail))
AsRawMessage(message) ==
    RawMessage(Str(message.role),
               IF IsString(message.content) THEN message.content
               ELSE Arr([i \in 1..Len(message.content.items) |->
                            AsRawPart(message.content.items[i])]))

\* coerceMessage(callInput)
Coerce ==
    /\ callOutput = NoOutput
    /\ callOutput' = [t |-> "coerced", once |-> coerceMessage(callInput), twice |-> NoOutput]
    /\ UNCHANGED <<serverVars, callInput, client>>

\* coerceMessage of the message coerceMessage returned
CoerceAgain ==
    /\ callOutput.t = "coerced"
    /\ callOutput.once.ok
    /\ callOutput.twice = NoOutput
    /\ callOutput' = [callOutput EXCEPT !.twice = coerceMessage(AsRawMessage(callOutput.once.v))]
    /\ UNCHANGED <<serverVars, callInput, client>>

\* the details, the image urls and the texts of the parts
DetailStrings == {"auto", "low", "high", "ultra", "HIGH", "Low", ""}
Details ==
    {Str(d) : d \in DetailStrings}
        \cup {Undefined, Null, Num(50), Num(0)}
ImageUrls ==
    {"https://example.com/a.png", "data:image/png;base64,iVBORw0KGgo=",
     "data:image/JPEG;base64,/9j/\r\n4AAQ", "HTTP://example.com/b.jpg"}
PartTexts == {"mira esto", "¿Qué ves en la 2ª imagen?"}
SecondImage == RawImage(Str("https://example.com/c.png"), Str("low"))

\* multipart messages of a text and two images, in two orders
MultipartInputs ==
    {RawMessage(Str(role), Arr(<<RawText(Str(text)), RawImage(Str(url), detail), SecondImage>>)) :
         role \in {"user"}, text \in PartTexts, url \in ImageUrls, detail \in Details}
    \cup
    {RawMessage(Str(role), Arr(<<SecondImage, RawImage(Str(url), detail), RawText(Str(text))>>)) :
         role \in {"assistant"}, text \in {"mira esto"}, url \in ImageUrls, detail \in Details}

InitCoerce ==
    /\ ServerInit /\ apiKey = "test-key"
    /\ callInput \in MultipartInputs
    /\ callOutput = NoOutput
    /\ client = IdleClient

NextCoerce ==
    \/ Coerce
    \/ CoerceAgain

SpecCoerce == InitCoerce /\ [][NextCoerce]_vars

-----------------------------------------------------------------------------
(* Properties of the coercion of a multipart message *)

\* the detail the table of the levels gives to the detail of an image part
DetailOf(detail) ==
    CASE detail = Str("auto") -> "auto"
      [] detail = Str("low") -> "low"
      [] detail = Str("high") -> "high"
      [] OTHER -> "auto"

\* the part with the values of the input part
SamePart(part) ==
    IF part.type = Str("text") THEN [type |-> "text", text |-> part.text.v]
    ELSE [type |-> "image_url",
          image_url |-> [url |-> part.image_url.url.v, detail |-> DetailOf(part.image_url.detail)]]
SameMessage(message) ==
    [role |-> message.role.v,
     content |-> Arr([i \in 1..Len(message.content.items) |-> SamePart(message.content.items[i])])]

\* C13: the coercion of a valid multipart message succeeds whatever the detail
\* of its images, keeps the order of the parts, the role, the texts and the
\* urls, gives each image its detail when it is auto, low or high and auto
\* otherwise, and the coercion of the coerced message returns it unchanged.
C13_CoercionKeepsParts ==
    callOutput # NoOutput =>
        /\ callOutput.once = Ok(SameMessage(callInput))
        /\ callOutput.twice \in {NoOutput, callOutput.once}

\* an image whose detail is a number makes the coercion throw
C13_NumericDetailThrows ==
    /\ callOutput # NoOutput
    /\ callInput.content.items[2].image_url.detail = Num(50)
    /\ ~callOutput.once.ok

-----------------------------------------------------------------------------
(* The check of a data URL called on its own *)

\* the lengths of base64 text around the one that decodes to the ceiling
MaxSpread == 16
CeilingLength == (MAX_DATA_URL_BYTES \div 3) * 4
Lengths == (CeilingLength - MaxSpread)..(CeilingLength + MaxSpread)

\* a data URL given in full, and one given by the length of its base64 text,
\* the line breaks taken out, and the number of = signs that end it
UrlInput(url) == [t |-> "url", url |-> url]
SizedInput(length, padding) == [t |-> "sized", length |-> length, padding |-> padding]

WellFormedDataUrls ==
    {"data:image/png;base64,iVBORw0KGgo=", "data:image/jpeg;base64,/9j/4AAQ",
     "data:image/jpg;base64,/9j/\r\n4AAQSg==", "data:image/PNG;BASE64,QUJD",
     "data:image/png;base64,=", "data:image/png;base64,A=B="}
MalformedDataUrls ==
    {"data:image/gif;base64,R0lGODlh", "data:image/png;base64,",
     "data:image/png;base64,iVBO*w0K", "data:image/png;charset=utf-8;base64,QUJD",
     "data:text/plain;base64,QUJD", "data:image/png;base64,QUJD QUJD",
     "data:image/png,QUJD", "data:image/jpeeg;base64,QUJD"}
DataUrlInputs ==
    {UrlInput(url) : url \in WellFormedDataUrls \cup MalformedDataUrls}
        \cup {SizedInput(length, padding) : length \in Lengths, padding \in 0..2}

\* the image part of callInput: getDataUrlPayload and the checks made on it
CheckDataUrl ==
    /\ callOutput = NoOutput
    /\ callInput.t = "url"
    /\ callOutput' = [t |-> "checked", payload |-> getDataUrlPayload(callInput.url),
                      part |-> coerceImagePart(callInput.url, Ok("auto"))]
    /\ UNCHANGED <<serverVars, callInput, client>>

\* the same for a base64 text known by its length and padding
CheckSizedDataUrl ==
    /\ callOutput = NoOutput
    /\ callInput.t = "sized"
    /\ LET payload == PayloadOfSize("", callInput.length, callInput.padding)
       IN  callOutput' = [t |-> "checked", payload |-> payload,
                          part |-> coerceDataUrlPart("data:image/png;base64,", "auto", payload)]
    /\ UNCHANGED <<serverVars, callInput, client>>

InitDataUrl ==
    /\ ServerInit /\ apiKey = "test-key"
    /\ callInput \in DataUrlInputs
    /\ callOutput = NoOutput
    /\ client = IdleClient

NextDataUrl ==
    \/ CheckDataUrl
    \/ CheckSizedDataUrl

SpecDataUrl == InitDataUrl /\ [][NextDataUrl]_vars

-----------------------------------------------------------------------------
(* Properties of the check of a data URL *)

\* the decoded size of each well-formed url, counted by hand
DecodedBytes(url) ==
    CASE url = "data:image/png;base64,iVBORw0KGgo=" -> 8
      [] url = "data:image/jpeg;base64,/9j/4AAQ" -> 6
      [] url = "data:image/jpg;base64,/9j/\r\n4AAQSg==" -> 7
      [] url = "data:image/PNG;BASE64,QUJD" -> 3
      [] url = "data:image/png;base64,=" -> -1
      [] url = "data:image/png;base64,A=B=" -> 2

\* floor(length / 4) * 3 - padding
DecodedSize(length, padding) == 3 * ((length - (length % 4)) \div 4) - padding

Accepted(url) == Ok([type |-> "image_url", image_url |-> [url |-> url, detail |-> "auto"]])

\* C14: a data:image url is accepted exactly when it matches the pattern of
\* a png or jpeg base64 text and floor(length / 4) * 3 - padding, for the
\* base64 text without its line breaks, is at most 20 * 1024 * 1024; a larger
\* size throws the 20 MiB error, which is not that of a malformed data URL.
C14_DataUrlAcceptedIffWithinCeiling ==
    callOutput # NoOutput =>
        IF callInput.t = "sized"
        THEN IF DecodedSize(callInput.length, callInput.padding) <= 20 * 1024 * 1024
             THEN callOutput.part = Accepted("data:image/png;base64,")
             ELSE /\ callOutput.part = Throw("La imagen adjunta supera el límite de 20 MiB")
                  /\ callOutput.part # Throw("Data URL de imagen inválida")
        ELSE IF callInput.url \in WellFormedDataUrls
             THEN /\ callOutput.payload.bytes = DecodedBytes(callInput.url)
                  /\ callOutput.part = Accepted(callInput.url)
             ELSE callOutput.part = Throw("Data URL de imagen inválida")

\* a base64 text of one byte more than the ceiling is refused, and one of
\* exactly the ceiling, thanks to its padding, has been accepted
C14_OneByteOverCeiling ==
    /\ callOutput # NoOutput
    /\ callInput.t = "sized"
    /\ callInput.length = CeilingLength + 4
    /\ \/ callInput.padding = 0 /\ callOutput.payload.bytes = 20 * 1024 * 1024 + 1
          /\ ~callOutput.part.ok
       \/ callInput.padding = 1 /\ callOutput.payload.bytes = 20 * 1024 * 1024
          /\ callOutput.part.ok

-----------------------------------------------------------------------------
(* normalizeText and guardOrThrow called on their own *)

TextInput(text) == [t |-> "text", text |-> text]

\* the results of the calls made so far with callInput
GuardOutput ==
    IF callOutput = NoOutput
    THEN [t |-> "guard", normalizes |-> FALSE, normalized |-> "", guards |-> FALSE, reason |-> ""]
    ELSE callOutput

\* normalizeText(callInput.text)
NormalizeCall ==
    /\ callInput.t = "text"
    /\ ~GuardOutput.normalizes
    /\ callOutput' = [GuardOutput EXCEPT !.normalizes = TRUE,
                                         !.normalized = normalizeText(callInput.text)]
    /\ UNCHANGED <<serverVars, callInput, client>>

\* guardOrThrow(callInput.text)
GuardCall ==
    /\ callInput.t = "text"
    /\ ~GuardOutput.guards
    /\ callOutput' = [GuardOutput EXCEPT !.guards = TRUE,
                                         !.reason = guardOrThrow(callInput.text)]
    /\ UNCHANGED <<serverVars, callInput, client>>

\* texts made of one fragment or none for each rule, the fragments of the
\* later rules first
Fragment(present, text) == IF present THEN text ELSE ""
RuleText(lex, age, excluded, hard, dox, marker, nsfw) ==
    "dime "
        \o Fragment(nsfw, "porno ") \o Fragment(marker, "de @persona ")
        \o Fragment(dox, "para filtrar datos ") \o Fragment(hard, "con incesto ")
        \o Fragment(excluded, "tras años de experiencia ") \o Fragment(age, "de 15 yrs ")
        \o Fragment(lex, "y una loli ")
        \o "ya"
RuleTexts ==
    {RuleText(lex, age, excluded, hard, dox, marker, nsfw) :
         lex \in BOOLEAN, age \in BOOLEAN, excluded \in BOOLEAN, hard \in BOOLEAN,
         dox \in BOOLEAN, marker \in BOOLEAN, nsfw \in BOOLEAN}


\* texts with a number and a unit of age: on their own, followed by a word, by
\* a mark or by a phrase of the exclusions that is not next to them, and next
\* to a phrase of the exclusions
MinorAges == {"1", "9", "10", "13", "15", "17"}
OtherAges == {"0", "18", "25", "117"}
AgeUnits == {"años", "anos", "years", "year", "yrs", "yr", "y/o", "yo"}
AgeEndings == {"", " de edad", " y estudia", ", vive lejos"}
BareAgeTexts ==
    {"tiene " \o n \o " " \o unit \o ending :
         n \in MinorAges, unit \in AgeUnits, ending \in AgeEndings}
ExclaimedAgeTexts == {"tiene " \o n \o " años!" : n \in MinorAges}
FarExclusionAgeTexts ==
    {"tiene " \o n \o " años y años atrás vivía en Lima" : n \in MinorAges}
        \cup {"Tiene " \o n \o " años. Hace 2 años llegó" : n \in MinorAges}
AdultAgeTexts == {"tiene " \o n \o " " \o unit : n \in OtherAges, unit \in AgeUnits}
ExcludedAgeTexts ==
    UNION {{n \o " años de experiencia en soporte técnico",
            "hace " \o n \o " años vi un documental interesante",
            "antigüedad " \o n \o " años en la empresa",
            "llegó " \o n \o " años atrás",
            "volvió " \o n \o " Años Después"} : n \in MinorAges}

\* the words of the underage lexicon
UnderageTerms ==
    {"menor", "menores", "nino", "nina", "ninos", "ninas", "adolescente", "adolescentes",
     "teen", "teens", "teenager", "teenagers", "infante", "infantes", "preadolecente",
     "preadolecentes", "prepubescente", "prepubescentes", "loli", "shota"}

\* a letter in upper case, with a diacritic, and as its leetspeak substitute
UpperOf(c) ==
    CASE c = "a" -> "A" [] c = "b" -> "B" [] c = "c" -> "C" [] c = "d" -> "D"
      [] c = "e" -> "E" [] c = "f" -> "F" [] c = "g" -> "G" [] c = "h" -> "H"
      [] c = "i" -> "I" [] c = "l" -> "L" [] c = "m" -> "M" [] c = "n" -> "N"
      [] c = "o" -> "O" [] c = "p" -> "P" [] c = "r" -> "R" [] c = "s" -> "S"
      [] c = "t" -> "T" [] c = "u" -> "U"
      [] OTHER -> c
AccentOf(c) ==
    CASE c = "a" -> "á" [] c = "e" -> "é" [] c = "i" -> "í" [] c = "o" -> "ó"
      [] c = "u" -> "ü" [] c = "n" -> "ñ" [] c = "c" -> "ç"
      [] OTHER -> c
LeetOf(c) ==
    CASE c = "i" -> "1" [] c = "e" -> "3" [] c = "o" -> "0" [] c = "s" -> "$"
      [] c = "a" -> "@"
      [] OTHER -> c
BangOf(c) == IF c = "i" THEN "!" ELSE LeetOf(c)

RECURSIVE Join(_)
Join(chars) == IF Len(chars) = 0 THEN "" ELSE Head(chars) \o Join(Tail(chars))

\* the term with the letters at the positions P written another way
Rewrite(term, P, Other(_)) ==
    Join([i \in 1..Len(term) |-> IF i \in P THEN Other(CharAt(term, i)) ELSE CharAt(term, i)])

\* the positions of a term taken one or two at a time, and all of them
Positions(term) == 1..Len(term)
FewPositions(term) ==
    {{i, j} : i \in Positions(term), j \in Positions(term)} \cup {Positions(term)}

\* each term as a whole word: as it is, before a mark, in upper and mixed
\* case, with diacritics, and with letters replaced by their substitutes
PlainTermTexts ==
    UnderageTerms \cup {"vi una " \o term \o " ayer" : term \in UnderageTerms}
MarkedTermTexts ==
    {"una " \o term \o mark : term \in UnderageTerms, mark \in {".", "?", "!", "!!"}}
CasedTermTexts ==
    UNION {{"una " \o Rewrite(term, P, UpperOf) \o " ayer" :
                P \in {Positions(term), {1}, {i \in Positions(term) : i % 2 = 0}}} :
           term \in UnderageTerms}
AccentedTermTexts ==
    UNION {{"una " \o Rewrite(term, P, AccentOf) \o " ayer" : P \in FewPositions(term)} :
           term \in UnderageTerms}
LeetTermTexts ==
    UNION {{"una " \o Rewrite(term, P, LeetOf) \o " ayer" : P \in FewPositions(term)}
               \cup {"una " \o Rewrite(term, P, BangOf) \o " ayer" : P \in FewPositions(term)} :
           term \in UnderageTerms}
TermTexts ==
    PlainTermTexts \cup MarkedTermTexts \cup CasedTermTexts \cup AccentedTermTexts
        \cup LeetTermTexts

\* the characters given to the normalizer: a letter of each case, a letter
\* with a mark, two compatibility characters, the substitutes, a digit that is
\* no substitute, and a space
Alphabet == {"a", "Z", "é", "ª", "²", "1", "!", "3", "0", "$", "@", "5", " "}
\* applyLeetspeak reads text[i - 1], text[i] and text[i + 1]: a character
\* with each neighbour, or none, before it and after it
Neighbours == Alphabet \cup {""}
ShortTexts ==
    {before \o c \o after : before \in Neighbours, c \in Alphabet, after \in Neighbours}

\* handles and links to the named platforms, and words that are neither
Markers ==
    {"@persona", "@Ana_99", "https://www.instagram.com/ana", "http://x.com/Ana",
     "https://tiktok.com/@ana", "https://twitter.com/ana/status/1",
     "http://www.facebook.com/ana.real"}
NonMarkers ==
    {"persona", "https://example.com/ana", "https://www.youtube.com/ana", "un @ suelto",
     "https://instagram.com/"}
\* the NSFW terms, as they are and disguised, and words that are none
NsfwWords ==
    {"sex", "sexo", "porn", "porno", "desnudo", "desnudos", "erot", "fetich", "xxx",
     "P0RNO", "s3xo", "Desnúdos"}
NonNsfwWords == {"sexual", "erotismo", "pornografia", "cine", "xx"}
LikenessText(marker, word, wordFirst) ==
    IF wordFirst THEN "mira " \o word \o " en " \o marker
    ELSE marker \o " con " \o word \o " explícito"
MarkerWithNsfwTexts ==
    {LikenessText(marker, word, wordFirst) :
         marker \in Markers, word \in NsfwWords, wordFirst \in BOOLEAN}
LoneMarkerTexts ==
    {LikenessText(marker, word, wordFirst) :
         marker \in Markers, word \in NonNsfwWords, wordFirst \in BOOLEAN}
LoneNsfwTexts ==
    {LikenessText(marker, word, wordFirst) :
         marker \in NonMarkers, word \in NsfwWords, wordFirst \in BOOLEAN}
NeitherTexts ==
    {LikenessText(marker, word, wordFirst) :
         marker \in NonMarkers, word \in NonNsfwWords, wordFirst \in BOOLEAN}
LikenessTexts == MarkerWithNsfwTexts \cup LoneMarkerTexts \cup LoneNsfwTexts \cup NeitherTexts

\* the texts given to the guard
GuardTexts ==
    RuleTexts \cup BareAgeTexts \cup ExclaimedAgeTexts \cup FarExclusionAgeTexts
        \cup AdultAgeTexts \cup ExcludedAgeTexts \cup TermTexts \cup LikenessTexts

InitGuard ==
    /\ ServerInit /\ apiKey = "test-key"
    /\ callInput \in {TextInput(text) : text \in GuardTexts}
    /\ callOutput = NoOutput
    /\ client = IdleClient

NextGuard ==
    \/ NormalizeCall
    \/ GuardCall

SpecGuard == InitGuard /\ [][NextGuard]_vars

\* normalizeText alone, on the short texts
InitNormalizer ==
    /\ ServerInit /\ apiKey = "test-key"
    /\ callInput \in {TextInput(text) : text \in ShortTexts}
    /\ callOutput = NoOutput
    /\ client = IdleClient

NextNormalizer == NormalizeCall

SpecNormalizer == InitNormalizer /\ [][NextNormalizer]_vars

-----------------------------------------------------------------------------
(* Properties of the order of the rules *)

Guarded == callOutput # NoOutput /\ callOutput.guards
Normalized == callOutput # NoOutput /\ callOutput.normalizes

\* the reason of the earliest rule a text of RuleTexts has a fragment for
EarliestReason(text) ==
    IF Includes(text, "loli")
    THEN "Lo siento, eso viola nuestras reglas de contenido seguro (referencia a menores)."
    ELSE IF Includes(text, "15 yrs") /\ ~Includes(text, "años de experiencia")
    THEN "Lo siento, eso viola nuestras reglas de contenido seguro (referencia etaria a menores)."
    ELSE IF Includes(text, "incesto")
    THEN "Lo siento, eso viola nuestras reglas de contenido seguro (contenido hard prohibido)."
    ELSE IF Includes(text, "filtrar datos")
    THEN "Lo siento, eso viola nuestras reglas de contenido seguro (doxxing)."
    ELSE IF Includes(text, "@persona") /\ Includes(text, "porno")
    THEN "Lo siento, eso viola nuestras reglas de contenido seguro (likeness real en contexto NSFW)."
    ELSE ""

\* C15: the guard fails with the reason of the earliest rule that matches, in
\* the order underage lexicon, age pattern unless an exclusion matches, hard
\* lexicon, doxxing lexicon, real likeness with NSFW; the five reasons are
\* distinct; a text whose age is excluded is still checked against the later
\* rules; a text that matches no rule passes.
C15_EarliestRuleWins ==
    /\ Cardinality({REASON_UNDERAGE, REASON_AGE, REASON_HARD, REASON_DOXXING,
                    REASON_LIKENESS, NoError}) = 6
    /\ (Guarded /\ callInput.text \in RuleTexts) =>
           callOutput.reason = EarliestReason(callInput.text)

\* a text with an excluded age and fragments of the three later rules has
\* failed with the reason of the hard lexicon
C15_ExcludedAgeThenHard ==
    /\ Guarded
    /\ callInput.text = RuleText(FALSE, TRUE, TRUE, TRUE, TRUE, TRUE, TRUE)
    /\ callOutput.reason = REASON_HARD

-----------------------------------------------------------------------------
(* Properties of the age rule *)

AgeReason == "Lo siento, eso viola nuestras reglas de contenido seguro (referencia etaria a menores)."

\* C16: a text with a number from 1 to 17 and a unit of age that is not next
\* to a phrase of the exclusions fails with the reason of the age rule, and the
\* same number next to a phrase of years of experience, of years ago or of
\* seniority passes.
C16_AgeBlockedUnlessExcluded ==
    Guarded =>
        /\ callInput.text \in BareAgeTexts \cup ExclaimedAgeTexts \cup FarExclusionAgeTexts =>
               callOutput.reason = AgeReason
        /\ callInput.text \in ExcludedAgeTexts => callOutput.reason = ""

\* an age of 15 with a phrase of the exclusions elsewhere in the text has passed
C16_AgePassesWithFarExclusion ==
    /\ Guarded
    /\ callInput.text = "tiene 15 años y años atrás vivía en Lima"
    /\ callOutput.reason = ""

-----------------------------------------------------------------------------
(* Properties of the underage lexicon *)

-----------------------------------------------------------------------------
(* Properties of the normalizer *)

\* a character of the alphabet in lower case and without its mark, and the
\* same with the compatibility characters replaced by what they stand for
LowerStripped(c) == CASE c = "Z" -> "z" [] c = "é" -> "e" [] OTHER -> c
Decomposed(c) == CASE c = "ª" -> "a" [] c = "²" -> "2" [] OTHER -> LowerStripped(c)

\* the character at place i of a text once folded by Plain: a substitute next
\* to a letter a-z becomes its letter, an @ becomes a, the others stay
LettersAZ ==
    {"a", "b", "c", "d", "e", "f", "g", "h", "i", "j", "k", "l", "m", "n", "o", "p", "q",
     "r", "s", "t", "u", "v", "w", "x", "y", "z"}
PlainAt(text, i, Plain(_)) == IF i < 1 \/ i > Len(text) THEN "" ELSE Plain(CharAt(text, i))
NextToLetter(text, i, Plain(_)) ==
    PlainAt(text, i - 1, Plain) \in LettersAZ \/ PlainAt(text, i + 1, Plain) \in LettersAZ
NormalAt(text, i, Plain(_)) ==
    LET c == PlainAt(text, i, Plain)
    IN  IF c = "@" THEN "a"
        ELSE IF ~NextToLetter(text, i, Plain) THEN c
        ELSE CASE c = "1" -> "i" [] c = "!" -> "i" [] c = "3" -> "e" [] c = "0" -> "o"
               [] c = "$" -> "s" [] OTHER -> c
NormalOf(text, Plain(_)) == Join([i \in 1..Len(text) |-> NormalAt(text, i, Plain)])

-----------------------------------------------------------------------------
(* Properties of the real likeness rule *)

-----------------------------------------------------------------------------
(* The page: streamWithRetries (app/page.tsx) *)

MAX_STREAM_RETRIES == 2
RETRY_BASE_DELAY_MS == 1000

AbortError == [name |-> "AbortError", message |-> "The operation was aborted."]
NetworkError == [name |-> "TypeError", message |-> "Failed to fetch"]
Error(message) == [name |-> "Error", message |-> message]
MSG_REQUEST == "Error en la solicitud"
MSG_NO_BODY == "No se pudo leer la respuesta del servidor"

\* the conversation holds at most MaxMessages messages, and the reply at most
\* MaxContent deltas
MaxMessages == 4
MaxContent == 2
\* the user queues at most MaxImages images
MaxImages == 1
Delta == "x"

\* attempt < MAX_STREAM_RETRIES
shouldRetryOnceMore(attempt) == attempt <= MAX_STREAM_RETRIES
shouldRetry(attempt) == attempt < MAX_STREAM_RETRIES

\* RETRY_BASE_DELAY_MS * (attempt + 1)
backoff(attempt) == RETRY_BASE_DELAY_MS * (attempt + 1)

\* streamWithRetries(payload, attempt) up to its await fetch(...): a new
\* controller, stored in the ref, and the request
invokeUnstored(c, payload, attempt) ==
    [c EXCEPT !.pc = "fetch", !.payload = payload, !.attempt = attempt,
              !.controller = c.controller + 1, !.chunks = 0,
              !.attemptText = "", !.requests = Append(@, payload)]
invoke(c, payload, attempt) ==
    [c EXCEPT !.pc = "fetch", !.payload = payload, !.attempt = attempt,
              !.controller = c.controller + 1, !.ref = c.controller + 1, !.chunks = 0,
              !.attemptText = "", !.requests = Append(@, payload)]

\* the finally block
finallyBlock(c) == IF c.ref = c.controller THEN [c EXCEPT !.ref = 0] ELSE c

\* the catch block up to its await delay(backoff) or its throw
catchBlock(c, error) ==
    IF error.name = "AbortError"
    THEN finallyBlock([c EXCEPT !.pc = "thrown", !.error = error])
    ELSE IF shouldRetry(c.attempt)
    THEN [c EXCEPT !.pc = "delay", !.ref = 0, !.waits = Append(@, backoff(c.attempt)),
                   !.failures = Append(@, error)]
    ELSE finallyBlock([c EXCEPT !.pc = "thrown", !.error = error,
                                !.failures = Append(@, error)])

\* the signal of the pending fetch or read was aborted
Aborted(c) == c.controller \in c.aborted

\* the content of the last message with a delta appended to it
appendContent(messages, content) ==
    IF Len(messages) = 0 THEN messages
    ELSE [messages EXCEPT ![Len(messages)].content = @ \o content]

\* the catch block of handleSubmit: the error is shown and the trailing
\* assistant message is removed when it is empty, unless the error is an abort
rollBackAlways(messages) == SubSeq(messages, 1, Len(messages) - 1)
rollBack(messages) ==
    IF Len(messages) = 0 THEN messages
    ELSE LET last == messages[Len(messages)]
         IN  IF last.role = "assistant" /\ Len(last.content) = 0
             THEN SubSeq(messages, 1, Len(messages) - 1)
             ELSE messages
MSG_CONNECTION == "Error de conexión. Intenta de nuevo."
handleSubmitCatch(c, fetchError) ==
    IF fetchError.name # "AbortError"
    THEN [c EXCEPT !.pageError = IF fetchError.message # "" THEN fetchError.message
                                 ELSE MSG_CONNECTION,
                   !.messages = rollBack(@)]
    ELSE c

\* handleSubmit up to its await streamWithRetries(payload, 0): it returns when
\* the trimmed input is empty or the page is loading; else the error is
\* cleared, and either the guard refuses the input and its error is shown, or
\* the message of the user and an empty message of the assistant are appended
\* and the page is loading
MSG_GUARD ==
    "Lo siento, eso viola nuestras reglas de contenido seguro. ¿Quieres probar algo diferente?"
handleSubmitGuardLast(c) ==
    IF guardOrThrow(Trim(c.input)) # ""
    THEN [c EXCEPT !.pageError = MSG_GUARD, !.input = "", !.queuedImages = 0,
                   !.messages = @ \o <<[role |-> "user", content |-> Trim(c.input)]>>]
    ELSE invoke([IdleClient EXCEPT
                     !.isLoading = TRUE,
                     !.messages = c.messages
                         \o <<[role |-> "user", content |-> Trim(c.input)],
                              [role |-> "assistant", content |-> ""]>>],
                Trim(c.input), 0)
handleSubmit(c) ==
    IF guardOrThrow(Trim(c.input)) # ""
    THEN [c EXCEPT !.pageError = MSG_GUARD]
    ELSE invoke([IdleClient EXCEPT
                     !.isLoading = TRUE,
                     !.messages = c.messages
                         \o <<[role |-> "user", content |-> Trim(c.input)],
                              [role |-> "assistant", content |-> ""]>>],
                Trim(c.input), 0)

\* the form is submitted with the text of the state input
SubmitPressed ==
    /\ Trim(client.input) # "" /\ ~client.isLoading
    /\ client.pc = "idle"
    /\ Len(client.messages) + 2 <= MaxMessages
    /\ client' = handleSubmit(client)
    /\ UNCHANGED <<serverVars, callVars>>

\* the user writes input and submits the form
Submit(input) ==
    /\ Trim(input) # "" /\ ~client.isLoading
    /\ client.pc = "idle"
    /\ Len(client.messages) + 2 <= MaxMessages
    /\ client' = handleSubmit([client EXCEPT !.input = input])
    /\ UNCHANGED <<serverVars, callVars>>

\* the user edits the text of the message: setInput(input); the field is
\* disabled while the page is loading
InputChanged(input) ==
    /\ ~client.isLoading
    /\ client.pc = "idle"
    /\ client.input # input
    /\ client' = [client EXCEPT !.input = input]
    /\ UNCHANGED <<serverVars, callVars>>

\* the user queues an image for the message, up to MaxImages of them
ImageQueued ==
    /\ ~client.isLoading
    /\ client.pc = "idle"
    /\ client.queuedImages < MaxImages
    /\ client' = [client EXCEPT !.queuedImages = @ + 1]
    /\ UNCHANGED <<serverVars, callVars>>

\* fetch resolves with a response
FetchFulfilled(response) ==
    /\ client.pc = "fetch"
    /\ ~Aborted(client)
    /\ client' = IF ~response.ok THEN [client EXCEPT !.pc = "errorJson"]
                 ELSE IF ~response.body THEN catchBlock(client, Error(MSG_NO_BODY))
                 ELSE [client EXCEPT !.pc = "read"]
    /\ UNCHANGED <<serverVars, callVars>>

\* fetch rejects: the network failed
FetchFailed ==
    /\ client.pc = "fetch"
    /\ ~Aborted(client)
    /\ client' = catchBlock(client, NetworkError)
    /\ UNCHANGED <<serverVars, callVars>>

\* response.json() of a response that is not ok settles: a rejection, which
\* that of an aborted signal is too, is caught and leaves the default message
ErrorJsonSettled(errorJson) ==
    /\ client.pc = "errorJson"
    /\ Aborted(client) => ~errorJson.parsed
    /\ client' = catchBlock(client,
                            Error(IF errorJson.parsed /\ IsString(errorJson.error)
                                  THEN errorJson.error.v ELSE MSG_REQUEST))
    /\ UNCHANGED <<serverVars, callVars>>

\* reader.read() settles: a chunk without a data line, a chunk with a delta
\* and no [DONE] line, a chunk with the [DONE] line, the end of the body, or a
\* rejection
BodyRead(kind) ==
    /\ client.pc = "read"
    /\ ~Aborted(client)
    /\ kind = "delta" => Len(client.messages[Len(client.messages)].content) < MaxContent
    /\ client' = CASE kind = "chunk" -> [client EXCEPT !.chunks = 1 - @]
                   [] kind = "delta" -> [client EXCEPT !.messages = appendContent(@, Delta),
                                                        !.attemptText = @ \o Delta]
                   [] kind \in {"marker", "end"} -> finallyBlock([client EXCEPT !.pc = "returned"])
                   [] kind = "rejected" -> catchBlock(client, NetworkError)
    /\ UNCHANGED <<serverVars, callVars>>

\* the pending fetch or read of an aborted signal rejects
AbortObserved ==
    /\ client.pc \in {"fetch", "read"}
    /\ Aborted(client)
    /\ client' = catchBlock(client, AbortError)
    /\ UNCHANGED <<serverVars, callVars>>

\* the timer of delay(backoff) fires: return streamWithRetries(payload, attempt + 1),
\* then the finally block of the call that waited
DelayElapsed ==
    /\ client.pc = "delay"
    /\ LET waiting == client.controller
           called == invoke(client, client.payload, client.attempt + 1)
       IN  client' = IF called.ref = waiting THEN [called EXCEPT !.ref = 0] ELSE called
    /\ UNCHANGED <<serverVars, callVars>>

\* stopStreaming, which the button shown while the page is loading invokes
stopStreaming ==
    /\ client.isLoading
    /\ LET invoked == [client EXCEPT !.stoppedAt = IF @ = "" THEN client.pc ELSE @]
       IN  client' = IF client.ref # 0
                     THEN [invoked EXCEPT !.aborted = @ \cup {client.ref}, !.ref = 0]
                     ELSE invoked
    /\ UNCHANGED <<serverVars, callVars>>

\* handleSubmit after its await streamWithRetries(...): its catch block and
\* its finally block; the page is ready for the next message
SubmitSettled ==
    /\ client.pc \in {"returned", "thrown"}
    /\ LET caught == IF client.pc = "thrown" THEN handleSubmitCatch(client, client.error)
                     ELSE client
       IN  client' = [caught EXCEPT !.pc = "idle", !.isLoading = FALSE, !.ref = 0]
    /\ UNCHANGED <<serverVars, callVars>>

ClientInputs == {" hola ", "adios", "una loli", "filtrar datos"}
FetchResponses ==
    {[ok |-> TRUE, body |-> TRUE], [ok |-> TRUE, body |-> FALSE], [ok |-> FALSE, body |-> TRUE]}
ErrorJsons ==
    {[parsed |-> TRUE, error |-> Str("Demasiadas solicitudes. Intenta de nuevo en unos segundos.")],
     [parsed |-> TRUE, error |-> Str("")], [parsed |-> TRUE, error |-> Undefined],
     [parsed |-> FALSE, error |-> Undefined]}
ReadKinds == {"chunk", "delta", "marker", "end", "rejected"}

InitClient ==
    /\ ServerInit /\ apiKey = "test-key"
    /\ callInput = NoInput
    /\ callOutput = NoOutput
    /\ client = IdleClient

\* the steps that settle an await of streamWithRetries
FetchSettles == FetchFailed \/ \E response \in FetchResponses : FetchFulfilled(response)
ErrorJsonSettles == \E errorJson \in ErrorJsons : ErrorJsonSettled(errorJson)
ReadSettles == \E kind \in ReadKinds : BodyRead(kind)

NextClient ==
    \/ \E input \in ClientInputs : Submit(input)
    \/ \E response \in FetchResponses : FetchFulfilled(response)
    \/ FetchFailed
    \/ \E errorJson \in ErrorJsons : ErrorJsonSettled(errorJson)
    \/ \E kind \in ReadKinds : BodyRead(kind)
    \/ AbortObserved
    \/ DelayElapsed
    \/ stopStreaming
    \/ SubmitSettled

\* every fetch, every read and every timer settles; the user may never submit
\* and never stop
SpecClient ==
    /\ InitClient
    /\ [][NextClient]_vars
    /\ WF_vars(FetchSettles)
    /\ WF_vars(ErrorJsonSettles)
    /\ WF_vars(ReadSettles)
    /\ WF_vars(AbortObserved)
    /\ WF_vars(DelayElapsed)
    /\ WF_vars(SubmitSettled)

\* the form on its own: the user edits the text, queues images and submits;
\* every request fails, and the page is ready again after the last retry
NextForm ==
    \/ \E input \in ClientInputs \cup {""} : InputChanged(input)
    \/ ImageQueued
    \/ SubmitPressed
    \/ FetchFailed
    \/ DelayElapsed
    \/ SubmitSettled

SpecForm == InitClient /\ [][NextForm]_vars

-----------------------------------------------------------------------------
(* Properties of the retries *)

Running == client.pc \in {"fetch", "errorJson", "read", "delay"}
Settled == client.pc \in {"returned", "thrown"}
Reading == client.pc = "read"

\* at most three requests, each with the payload of the submission; the n-th
\* failure that is no abort is followed by a delay of 1000 * n ms and by a new
\* request; the third is thrown to the caller
BoundedRetries ==
    /\ Len(client.requests) <= 3
    /\ \A n \in 1..Len(client.requests) : client.requests[n] = client.payload
    /\ Len(client.waits) <= 2
    /\ \A n \in 1..Len(client.waits) : client.waits[n] = 1000 * n
    /\ client.pc = "delay" =>
           /\ Len(client.failures) \in {1, 2}
           /\ Len(client.waits) = Len(client.failures)
           /\ Len(client.requests) = Len(client.failures)
    /\ client.pc \in {"fetch", "errorJson", "read", "returned"} =>
           /\ Len(client.waits) = Len(client.failures)
           /\ Len(client.requests) = Len(client.failures) + 1
    /\ client.pc = "thrown" =>
           IF client.error.name = "AbortError"
           THEN Len(client.requests) = Len(client.failures) + 1
           ELSE /\ Len(client.failures) = 3
                /\ Len(client.requests) = 3
                /\ client.waits = <<1000, 2000>>
                /\ client.error = client.failures[3]

\* C20, as amended: streamWithRetries issues at most 3 requests per
\* submission, waits 1000 * n ms after the n-th failure that is no abort
\* (n = 1, 2) and issues the full request again, throws the third failure to
\* its caller, and returns or throws provided every fetch, read and timer
\* settles and every body that is read ends, by its end, by a [DONE] line or
\* by a failed read, after finitely many chunks.
C20_BoundedRetriesAmended ==
    /\ []BoundedRetries
    /\ (Reading ~> ~Reading) => (Running ~> Settled)

\* C20: streamWithRetries issues at most 3 requests per submission, waits
\* 1000 * n ms after the n-th failure that is no abort (n = 1, 2) and issues
\* the full request again, throws the third failure to its caller, and always
\* returns or throws provided every fetch and every read settles.
C20_BoundedRetries ==
    /\ []BoundedRetries
    /\ Running ~> Settled

\* the third failure of a submission has been thrown after waits of 1000 and
\* 2000 ms
C20_ThirdFailureThrown ==
    /\ client.pc = "thrown"
    /\ client.error.name # "AbortError"
    /\ Len(client.requests) = 3
    /\ client.waits = <<1000, 2000>>

-----------------------------------------------------------------------------
(* Properties of the cancellation *)

Stopped == client.stoppedAt # ""

\* C21: once stopStreaming was invoked in a submission, while a request is in
\* flight, while a read is pending or during a backoff delay, streamWithRetries
\* issues no further request and appends no further text to the conversation.
C21_StopIsFinal ==
    [][(Stopped /\ client.isLoading /\ client.isLoading') =>
           (client.requests' = client.requests /\ client.messages' = client.messages)]_vars

\* stopStreaming was invoked during the backoff delay and the next request is
\* in flight, its signal not aborted
C21_RequestAfterStop ==
    /\ client.stoppedAt = "delay"
    /\ client.pc = "fetch"
    /\ ~Aborted(client)
    /\ Len(client.requests) = 2

-----------------------------------------------------------------------------
(* Properties of the end of a submission *)

LastMessage == client.messages[Len(client.messages)]
Settling == client.pc = "thrown" /\ client.pc' = "idle"

\* C22: when streamWithRetries throws an error that is no abort, handleSubmit
\* shows one error, the message of the error or the connection message when
\* it has none, and removes the last message exactly when it is the empty
\* message of the assistant; when it throws an abort, no error is shown and
\* the messages stay as they are.
C22_FailureShownAbortSilent ==
    [][Settling =>
           IF client.error.name = "AbortError"
           THEN client.pageError' = "" /\ client.messages' = client.messages
           ELSE /\ client.pageError' \in {client.error.message, MSG_CONNECTION}
                /\ client.pageError' # ""
                /\ IF LastMessage.role = "assistant" /\ LastMessage.content = ""
                   THEN client.messages' \o <<LastMessage>> = client.messages
                   ELSE client.messages' = client.messages]_vars

\* a third failure after a delta was shown: the reply that was begun is kept
C22_BegunReplyKept ==
    /\ client.pc = "idle"
    /\ client.error.name = "TypeError"
    /\ client.pageError = "Failed to fetch"
    /\ Len(client.messages) = 2
    /\ client.messages[2] = [role |-> "assistant", content |-> "x"]

-----------------------------------------------------------------------------
(* The page: the read loop of streamWithRetries (app/page.tsx), on its own *)

\* buffer.split('\n')
RECURSIVE split(_)
split(text) ==
    IF \A i \in 1..Len(text) : SubSeq(text, i, i) # "\n" THEN <<text>>
    ELSE LET i == CHOOSE i \in 1..Len(text) :
                      /\ SubSeq(text, i, i) = "\n"
                      /\ \A j \in 1..(i - 1) : SubSeq(text, j, j) # "\n"
         IN  <<SubSeq(text, 1, i - 1)>> \o split(SubSeq(text, i + 1, Len(text)))

\* JSON.parse(data) of the payloads the streams are made of; any other text of
\* these streams, a part of a payload included, is no JSON
Chunk(content) == [t |-> "object", choices |-> Arr(<<[delta |-> [content |-> content]]>>)]
JSONparse(data) ==
    CASE data = "{\"choices\":[{\"delta\":{\"content\":\"a\"}}]}" -> Ok(Chunk(Str("a")))
      [] data = "{\"choices\":[{\"delta\":{\"content\":\"b\"}}]}" -> Ok(Chunk(Str("b")))
      [] data = "{\"choices\":[{\"delta\":{\"content\":\"é\"}}]}" -> Ok(Chunk(Str("é")))
      [] data = "{\"choices\":[{\"delta\":{\"content\":\"\"}}]}" -> Ok(Chunk(Str("")))
      [] data = "{\"choices\":[]}" -> Ok([t |-> "object", choices |-> Arr(<<>>)])
      [] data = "{}" -> Ok([t |-> "object", choices |-> Undefined])
      [] data = "null" -> Ok(Null)
      [] OTHER -> Throw("SyntaxError")

\* parsed.choices?.[0]?.delta?.content, which throws when parsed is null
deltaContent(parsed) ==
    IF parsed.t = "null" THEN Throw("TypeError")
    ELSE IF parsed.choices.t # "array" \/ Len(parsed.choices.items) = 0 THEN Ok(Undefined)
    ELSE Ok(parsed.choices.items[1].delta.content)

\* the body of the try block for one payload: the content to append, "" for none
contentOf(data) ==
    IF ~JSONparse(data).ok THEN ""
    ELSE IF ~deltaContent(JSONparse(data).v).ok THEN ""
    ELSE IF IsString(deltaContent(JSONparse(data).v).v) THEN deltaContent(JSONparse(data).v).v.v
    ELSE ""

\* line.slice(5).trim()
dataOf(line) == Trim(SubSeq(line, 6, Len(line)))

\* for (const rawLine of lines) from the i-th line on
RECURSIVE forLinesPastDone(_, _, _)
forLinesPastDone(lines, i, appended) ==
    IF i > Len(lines) THEN [done |-> FALSE, appended |-> appended]
    ELSE IF ~StartsWith(Trim(lines[i]), "data:") THEN forLinesPastDone(lines, i + 1, appended)
    ELSE IF contentOf(dataOf(Trim(lines[i]))) # ""
    THEN forLinesPastDone(lines, i + 1, Append(appended, contentOf(dataOf(Trim(lines[i])))))
    ELSE forLinesPastDone(lines, i + 1, appended)
RECURSIVE forLinesFatal(_, _, _)
forLinesFatal(lines, i, appended) ==
    IF i > Len(lines) THEN [done |-> FALSE, appended |-> appended]
    ELSE IF ~StartsWith(Trim(lines[i]), "data:") THEN forLinesFatal(lines, i + 1, appended)
    ELSE IF dataOf(Trim(lines[i])) = "" THEN forLinesFatal(lines, i + 1, appended)
    ELSE IF dataOf(Trim(lines[i])) = "[DONE]" THEN [done |-> TRUE, appended |-> appended]
    ELSE IF ~JSONparse(dataOf(Trim(lines[i]))).ok THEN [done |-> TRUE, appended |-> appended]
    ELSE IF contentOf(dataOf(Trim(lines[i]))) # ""
    THEN forLinesFatal(lines, i + 1, Append(appended, contentOf(dataOf(Trim(lines[i])))))
    ELSE forLinesFatal(lines, i + 1, appended)
RECURSIVE forLines(_, _, _)
forLines(lines, i, appended) ==
    IF i > Len(lines) THEN [done |-> FALSE, appended |-> appended]
    ELSE IF ~StartsWith(Trim(lines[i]), "data:") THEN forLines(lines, i + 1, appended)
    ELSE IF dataOf(Trim(lines[i])) = "" THEN forLines(lines, i + 1, appended)
    ELSE IF dataOf(Trim(lines[i])) = "[DONE]" THEN [done |-> TRUE, appended |-> appended]
    ELSE IF contentOf(dataOf(Trim(lines[i]))) # ""
    THEN forLines(lines, i + 1, Append(appended, contentOf(dataOf(Trim(lines[i])))))
    ELSE forLines(lines, i + 1, appended)

\* decoder.decode(value, { stream: true }): the text of the bytes held back
\* and the bytes of value, a byte being written as its Latin-1 character; the
\* lead byte of a character of two bytes is held back until the next read
LeadBytes == {"Ã"}
Utf8(lead, continuation) ==
    CASE lead = "Ã" /\ continuation = "©" -> "é"
      [] lead = "Ã" /\ continuation = "±" -> "ñ"
      [] OTHER -> "?"
\* the text of the bytes lo..hi: a byte below 0x80 is its character, a lead
\* byte with the byte after it is the character of the two, and the byte after
\* a lead byte gives nothing more
RECURSIVE decodeBytes(_, _, _)
decodeBytes(bytes, lo, hi) ==
    IF lo > hi THEN ""
    ELSE IF lo < hi
    THEN decodeBytes(bytes, lo, (lo + hi) \div 2) \o decodeBytes(bytes, (lo + hi) \div 2 + 1, hi)
    ELSE IF CharAt(bytes, lo - 1) \in LeadBytes THEN ""
    ELSE IF CharAt(bytes, lo) \notin LeadBytes THEN CharAt(bytes, lo)
    ELSE IF lo = Len(bytes) THEN ""
    ELSE Utf8(CharAt(bytes, lo), CharAt(bytes, lo + 1))
decode(pending, value) ==
    [text |-> decodeBytes(pending \o value, 1, Len(pending \o value)),
     pending |-> IF CharAt(pending \o value, Len(pending \o value)) \in LeadBytes
                 THEN CharAt(pending \o value, Len(pending \o value)) ELSE ""]

\* the state of the loop before the first read
NoRead ==
    [t |-> "loop", pending |-> "", buffer |-> "", done |-> FALSE, appended |-> <<>>,
     offset |-> 0]   \* history: the bytes of the body read so far

\* the body of the loop for a read that gives a value: the lines but the last
\* are processed, the last stays in the buffer
Front(lines) == SubSeq(lines, 1, Len(lines) - 1)
bufferedLoop(loop, pending, lines, length) ==
    [loop EXCEPT !.pending = pending,
                 !.buffer = lines[Len(lines)],
                 !.done = forLines(Front(lines), 1, loop.appended).done,
                 !.appended = forLines(Front(lines), 1, loop.appended).appended,
                 !.offset = @ + length]
readValueUnbuffered(loop, value) ==
    bufferedLoop(loop, decode(loop.pending, value).pending,
                 split(decode(loop.pending, value).text), Len(value))
readValue(loop, value) ==
    bufferedLoop(loop, decode(loop.pending, value).pending,
                 split(loop.buffer \o decode(loop.pending, value).text), Len(value))

\* reader.read() gives the next bytes of the body, however many
ReadValue ==
    /\ callInput.t = "body"
    /\ ~callOutput.done
    /\ \E length \in 1..(Len(callInput.bytes) - callOutput.offset) :
           callOutput' = readValue(callOutput,
                                   SubSeq(callInput.bytes, callOutput.offset + 1,
                                          callOutput.offset + length))
    /\ UNCHANGED <<serverVars, callInput, client>>

\* reader.read() gives done: the body has ended
ReadDone ==
    /\ callInput.t = "body"
    /\ ~callOutput.done
    /\ callOutput.offset = Len(callInput.bytes)
    /\ callOutput' = [callOutput EXCEPT !.done = TRUE]
    /\ UNCHANGED <<serverVars, callInput, client>>

\* bodies of lines, with and without the data: prefix, ended by \n or \r\n or
\* not ended, with a [DONE] line and without, in UTF-8
DeltaA == "data: {\"choices\":[{\"delta\":{\"content\":\"a\"}}]}"
DeltaB == "data:{\"choices\":[{\"delta\":{\"content\":\"b\"}}]}"
DeltaE == "data: {\"choices\":[{\"delta\":{\"content\":\"Ã©\"}}]}"
Bodies ==
    {DeltaA \o "\n\n" \o DeltaB \o "\n\ndata: [DONE]\n\n",
     DeltaA \o "\r\n" \o DeltaB,
     ": ping\nevent: x\n" \o DeltaA \o "\ndata: [DONE]\n" \o DeltaB \o "\n",
     "data: {oops\n" \o DeltaB \o "\ndata: null\ndata:\n" \o DeltaA \o "\n",
     "data: {}\ndata: {\"choices\":[]}\n" \o DeltaA \o "\n",
     "data: {\"choices\":[{\"delta\":{\"content\":\"\"}}]}\n" \o DeltaB \o "\n",
     " " \o DeltaA \o "\n" \o DeltaB \o "\n",
     "id: 1\nxdata: 1\n" \o DeltaA \o "\n",
     DeltaE \o "\n" \o DeltaA \o "\n"}
BodyInput(bytes) == [t |-> "body", bytes |-> bytes]

InitStream ==
    /\ ServerInit /\ apiKey = "test-key"
    /\ callInput \in {BodyInput(bytes) : bytes \in Bodies}
    /\ callOutput = NoRead
    /\ client = IdleClient

NextStream ==
    \/ ReadValue
    \/ ReadDone

SpecStream == InitStream /\ [][NextStream]_vars

-----------------------------------------------------------------------------
(* Properties of the read loop *)

\* the text of the whole body and its lines that end with a newline
BodyText == decodeBytes(callInput.bytes, 1, Len(callInput.bytes))
CompleteLines == Front(split(BodyText))
Prefixed(line) == StartsWith(line, "data:")
PrefixedOnceTrimmed(line) == StartsWith(Trim(line), "data:")

Flags(HasPrefix(_)) == [i \in 1..Len(CompleteLines) |-> HasPrefix(CompleteLines[i])]

\* the deltas of the lines from the i-th on that have the prefix, up to the
\* first of them with the [DONE] payload
RECURSIVE DeltasOf(_, _, _)
DeltasOf(lines, i, hasPrefix) ==
    IF i > Len(lines) THEN <<>>
    ELSE IF ~hasPrefix[i] THEN DeltasOf(lines, i + 1, hasPrefix)
    ELSE IF dataOf(Trim(lines[i])) = "[DONE]" THEN <<>>
    ELSE IF contentOf(dataOf(Trim(lines[i]))) = "" THEN DeltasOf(lines, i + 1, hasPrefix)
    ELSE <<contentOf(dataOf(Trim(lines[i])))>> \o DeltasOf(lines, i + 1, hasPrefix)

\* the deltas appended when the whole body comes in one read
InOneRead == readValue(NoRead, callInput.bytes).appended

\* C23, as amended: however the bytes of a body are split into reads, the
\* deltas appended are those of the body read at once: each line is processed
\* once, when its newline has arrived, and only the lines that start with
\* data: once the white space around them is trimmed contribute.
C23_SplitInvariantAmended ==
    (callInput.t = "body" /\ callOutput.done) =>
        /\ callOutput.appended = InOneRead
        /\ callOutput.appended = DeltasOf(CompleteLines, 1, Flags(PrefixedOnceTrimmed))

\* C23: however the bytes of a body are split into reads, the deltas appended
\* are those of the body read at once: each line is processed once, when its
\* newline has arrived, and only the lines that start with data: contribute.
C23_SplitInvariant ==
    (callInput.t = "body" /\ callOutput.done) =>
        /\ callOutput.appended = InOneRead
        /\ callOutput.appended = DeltasOf(CompleteLines, 1, Flags(Prefixed))

\* the first line was processed and the first bytes of the second, read
\* without the rest, wait in the buffer
C23_PartialLineBuffered ==
    /\ callInput.t = "body"
    /\ callOutput.appended = <<"a">>
    /\ callOutput.buffer = "data:{\"choices\""

-----------------------------------------------------------------------------
(* Properties of the malformed lines *)

\* a line with the prefix whose payload JSON.parse refuses or whose delta
\* cannot be read
Malformed(line) ==
    /\ PrefixedOnceTrimmed(line)
    /\ dataOf(Trim(line)) \notin {"", "[DONE]"}
    /\ \/ ~JSONparse(dataOf(Trim(line))).ok
       \/ ~deltaContent(JSONparse(dataOf(Trim(line))).v).ok
WellFormed(line) == ~Malformed(line)
WellFormedLines == SelectSeq(CompleteLines, WellFormed)
HasDoneLine ==
    \E i \in 1..Len(CompleteLines) :
        PrefixedOnceTrimmed(CompleteLines[i]) /\ dataOf(Trim(CompleteLines[i])) = "[DONE]"

\* C24: a body with a data line whose payload is no valid JSON is read to the
\* [DONE] line or to its end, and the deltas appended are those of the body
\* without that line: the line is skipped and the lines after it are processed.
C24_MalformedLineSkipped ==
    (callInput.t = "body" /\ callOutput.done
         /\ \E i \in 1..Len(CompleteLines) : Malformed(CompleteLines[i])) =>
        /\ callOutput.appended =
               DeltasOf(WellFormedLines, 1,
                        [i \in 1..Len(WellFormedLines) |-> PrefixedOnceTrimmed(WellFormedLines[i])])
        /\ HasDoneLine \/ callOutput.offset = Len(callInput.bytes)

\* the deltas after the line {oops and after the line null were appended
C24_DeltasAfterMalformed ==
    /\ callInput.t = "body"
    /\ StartsWith(callInput.bytes, "data: {oops\n")
    /\ callOutput.done
    /\ callOutput.appended = <<"b", "a">>

-----------------------------------------------------------------------------
(* Properties of the responses of the proxy *)

Pending(h) == pc[h] \in {"json", "fetch", "errorJson"}
Answered(h) == pc[h] = "done"
ProviderStatus(h) == IF apiRes[h] # NoResponse /\ apiRes[h].t = "response" THEN {apiRes[h].status} ELSE {}
ErrorCodes == {"bad_request", "forbidden", "unsupported_media_type", "rate_limited", "internal_server_error"}

\* the response is the relayed stream, or a JSON body {error, code} with one
\* of the statuses of the failures, which a response with a body can have
StreamOrJsonError(h) ==
    \/ /\ resp[h].status = 200
       /\ resp[h].headers["Content-Type"] = "text/event-stream"
    \/ /\ resp[h].headers["Content-Type"] = "application/json"
       /\ resp[h].body.kind = "json"
       /\ resp[h].body.code \in ErrorCodes
       /\ resp[h].status \in {400, 403, 415, 429, 500, 502} \cup ProviderStatus(h)
       /\ resp[h].status \notin NullBodyStatus

\* C25: a handler has no response while it waits at an await and one
\* response when it ends, which stays as it is until the handler is free: the
\* relayed stream, or a JSON error {error, code} with a status of 400, 403,
\* 415, 429, 500, 502 or the status of the provider.
C25_OneResponseEach ==
    /\ [](\A h \in Handlers :
              /\ Pending(h) => resp[h] = NoResponse
              /\ Answered(h) => resp[h] # NoResponse /\ StreamOrJsonError(h))
    /\ [][\A h \in Handlers :
              resp[h] # NoResponse => (resp'[h] = resp[h] \/ pc'[h] = "idle")]_vars

\* the body of the request was no JSON: the exception of req.json() became
\* the 500 of the handler
C25_UnparsableBodyCaught ==
    /\ Answered(1)
    /\ req[1].body = BadJson
    /\ resp[1].status = 500
    /\ resp[1].body = [kind |-> "json", error |-> MSG_INTERNAL, code |-> "internal_server_error"]

-----------------------------------------------------------------------------
(* Properties of the failures of the provider *)

\* the provider answered with a status that is not ok, or without a body
UpstreamFailed(h) ==
    /\ apiRes[h] # NoResponse /\ apiRes[h].t = "response"
    /\ ~ResponseOk(apiRes[h]) \/ apiRes[h].body = Null

\* C26: when the provider answers with a status that is not ok or without a
\* body, the response of the proxy is a JSON error with the status of the
\* provider, 502 when it has none, and never a status from 200 to 299.
C26_UpstreamFailureStatus ==
    \A h \in Handlers :
        (Answered(h) /\ UpstreamFailed(h)) =>
            /\ resp[h].body.kind = "json"
            /\ resp[h].status = IF apiRes[h].status = 0 THEN 502 ELSE apiRes[h].status
            /\ ~(resp[h].status >= 200 /\ resp[h].status <= 299)

\* the provider answered 204, which has no body, and the proxy answered 500
C26_NoContentAnswered500 ==
    /\ Answered(1)
    /\ UpstreamFailed(1)
    /\ apiRes[1].status = 204
    /\ resp[1].status = 500
    /\ resp[1].body = [kind |-> "json", error |-> MSG_INTERNAL, code |-> "internal_server_error"]

-----------------------------------------------------------------------------
(* Properties of what the client sees of the provider *)

\* what json() of the body of a failure of the provider can give
ProviderJsons ==
    {BadJson, ErrorJson(Str("Invalid API key")),
     ErrorJson(Str("Incorrect API key provided: xai-abc")), ErrorJson(ErrorJson(Null))}

\* C27: the response to a failure of the provider is the one the proxy gives
\* to any failure with the same status, whatever the body of the provider.
C27_ProviderBodyHidden ==
    \A h \in Handlers :
        (Answered(h) /\ UpstreamFailed(h)) =>
            \A json \in ProviderJsons :
                resp[h] = upstreamError([apiRes[h] EXCEPT !.json = json], rateLimitHeaders[h])

\* the error string of the body of the provider is the error of the response
C27_ProviderErrorForwarded ==
    /\ Answered(1)
    /\ UpstreamFailed(1)
    /\ apiRes[1].status = 401
    /\ apiRes[1].json = ErrorJson(Str("Invalid API key"))
    /\ resp[1].body.error = "Invalid API key"

-----------------------------------------------------------------------------
(* Properties of the sweep of the rate limiter *)

\* the step is a call of applyRateLimit by a handler
AdmissionCall == \E h \in Handlers : pc[h] = "idle" /\ pc'[h] # "idle" /\ admission'[h].called

\* C28: the entries of the rate limiter change in the calls of applyRateLimit
\* alone, and after a call made at time now no entry of any client has a
\* resetAt at or before now.
C28_SweptOnEveryCall ==
    [][/\ rateState' # rateState => AdmissionCall
       /\ AdmissionCall => \A id \in DOMAIN rateState' : rateState'[id].resetAt > now]_vars

\* the call of a client at the end of the window of another client has
\* removed the entry of that other client
C28_OtherClientSwept ==
    /\ admission[1].called
    /\ admission[1].at = now
    /\ \E id \in DOMAIN window :
           /\ id # admission[1].clientId
           /\ window[id].resetAt <= now
           /\ id \notin DOMAIN rateState

(***************************************************************************)
(* The rate limiter called again and again: applyRateLimit at the instants *)
(* of the clock, for either client id, with the times of the admissions of *)
(* each client in the windowMs milliseconds that end with the last call.   *)
(***************************************************************************)
CallIds == {"10.0.0.1", "unknown"}

\* x-forwarded-for and req.ip of the calls: a forwarded list, the connection
\* ip alone, neither, and a forwarded list whose first entry is empty
CallHeaders ==
    {[forwarded |-> ForwardedA, ip |-> Undefined],
     [forwarded |-> Null, ip |-> Str("10.0.0.1")],
     [forwarded |-> Null, ip |-> Undefined],
     [forwarded |-> Str(", 10.0.0.1"), ip |-> Str("10.0.0.1")]}

\* times: the admissions of each client in the last windowMs milliseconds;
\* alone: the map of each client had no other client ever called, and
\* aloneResult: the result of the last call on that map
NoAdmissions ==
    [t |-> "admitted", times |-> [id \in CallIds |-> <<>>],
     alone |-> [id \in CallIds |-> <<>>], aloneResult |-> NoOutput]

\* the admissions of times later than t - windowMs
Since(times, t) ==
    LET Inside(at) == at > t - windowMs
    IN  SelectSeq(times, Inside)

\* the call of the rate limiter for clientId at time t, with its history
rateLimitCallOf(headers, clientId, t, rl, al) ==
    /\ now' = t
    /\ rateState' = rl.rs
    /\ callInput' = [t |-> "call", headers |-> headers, clientId |-> clientId,
                     allowed |-> rl.result.allowed, result |-> rl.result]
    /\ callOutput' = [callOutput EXCEPT
            !.times[clientId] =
                IF rl.result.allowed THEN Append(Since(@, t), t) ELSE Since(@, t),
            !.alone[clientId] = al.rs,
            !.aloneResult = al.result]

\* applyRateLimit(getClientId(req)) at an instant t not before the last call
RateLimitCall ==
    \E t \in Instants, headers \in CallHeaders :
        /\ callOutput.t = "admitted"
        /\ t >= now
        /\ rateLimitCallOf(headers, getClientId(headers), t,
                           applyRateLimit(rateState, t, getClientId(headers)),
                           applyRateLimit(callOutput.alone[getClientId(headers)], t,
                                          getClientId(headers)))
        /\ UNCHANGED <<apiKey, pc, req, rateLimitHeaders, sent, apiRes, resp, admission,
                       window, client>>

InitRateLimit ==
    /\ ServerInit /\ apiKey = "test-key"
    /\ callInput = NoInput
    /\ callOutput = NoAdmissions
    /\ client = IdleClient

NextRateLimit == RateLimitCall

SpecRateLimit == InitRateLimit /\ [][NextRateLimit]_vars

\* C29: for every client id and every interval of windowMs milliseconds,
\* wherever it starts, the requests of the client admitted inside the interval
\* are at most limit: the admissions of a client in the windowMs milliseconds
\* that end with any of its calls are at most limit.
C29_LimitInEveryInterval ==
    callOutput.t = "admitted" =>
        \A id \in CallIds : Len(callOutput.times[id]) <= limit

\* a client is admitted although limit admissions of it are less than
\* windowMs milliseconds old, the first of them in the window that ended
C29_AdmittedPastLimit ==
    /\ callOutput.t = "admitted"
    /\ callInput.t = "call"
    /\ callInput.allowed
    /\ LET times == callOutput.times[callInput.clientId]
       IN  /\ Len(times) = limit + 1
           /\ times[Len(times)] = now
           /\ times[1] > now - windowMs
           /\ times[1] < rateState[callInput.clientId].resetAt - windowMs

\* the request of handler h passes validation and the guard: with a key in
\* the environment its payload would be posted upstream
PassesGuard(h) ==
    /\ admission[h].called
    /\ admission[h].result.allowed
    /\ handleBody(req[h].body, "test-key").kind = "fetch"

\* C30: when the API secret is absent from the environment, every request
\* that passes validation and the guard is answered 500, and the upstream
\* provider is never called: no handler posts a payload or holds a provider
\* response.
C30_NoSecretNoUpstream ==
    apiKey = "" =>
        \A h \in Handlers :
            /\ pc[h] \notin {"fetch", "errorJson"}
            /\ sent[h] = NoPayload
            /\ apiRes[h] = NoResponse
            /\ (pc[h] = "done" /\ PassesGuard(h)) =>
                   /\ resp[h].status = 500
                   /\ resp[h].body.error = MSG_NO_KEY

\* without the secret, a request that passes the guard has been answered 500
C30_AnsweredWithoutSecret ==
    /\ apiKey = ""
    /\ pc[1] = "done"
    /\ PassesGuard(1)
    /\ resp[1].status = 500
    /\ resp[1].body.code = "internal_server_error"
    /\ sent[1] = NoPayload

\* C31: every stored entry has 1 <= count <= limit, and its resetAt is the
\* time of the call that created it plus windowMs: a call leaves the resetAt
\* of every entry that has not expired as it was, whether it is admitted or
\* rejected, and an entry that a call creates ends windowMs after the call.
C31_FixedWindow ==
    /\ [](\A id \in DOMAIN rateState :
              rateState[id].count >= 1 /\ rateState[id].count <= limit)
    /\ [][\A id \in DOMAIN rateState' :
              IF id \in DOMAIN rateState /\ rateState[id].resetAt > now'
              THEN rateState'[id].resetAt = rateState[id].resetAt
              ELSE rateState'[id] = [count |-> 1, resetAt |-> now' + windowMs]]_vars

\* a call rejected 1500 ms after the first call of its window finds the entry
\* full and leaves it with the end of the window it had
C31_RejectedInsideWindow ==
    /\ callInput.t = "call"
    /\ ~callInput.allowed
    /\ callInput.clientId \in DOMAIN rateState
    /\ rateState[callInput.clientId].count = limit
    /\ rateState[callInput.clientId].resetAt = now - 1500 + windowMs

\* the step in which handler h takes a request up
Starts(h) == pc[h] = "idle" /\ pc'[h] # "idle"

\* C32 (amended): a request answered 403 or 415 leaves the mapping as it was;
\* a request that passes both checks calls the rate limiter once, and no later
\* step of any request changes the mapping: an admitted request has consumed
\* one unit of the quota of its client whatever its answer is (400, 500, an
\* upstream error or the stream), while a rejected request (429) leaves the
\* entry of its client as it was.
C32_QuotaConsumedAmended ==
    /\ [](\A h \in Handlers :
              pc[h] = "done" =>
                  /\ resp[h].status \in {403, 415} <=> ~admission[h].called
                  /\ (admission[h].called /\ admission[h].result.allowed) =>
                         /\ admission[h].after.count =
                                IF admission[h].before.count = 0
                                   \/ admission[h].before.resetAt <= admission[h].at
                                THEN 1 ELSE admission[h].before.count + 1
                         /\ rateState[admission[h].clientId] = admission[h].after
                  /\ (admission[h].called /\ ~admission[h].result.allowed) =>
                         /\ resp[h].status = 429
                         /\ resp[h].body.code = "rate_limited"
                         /\ admission[h].after = admission[h].before)
    /\ [][rateState' # rateState =>
              \E h \in Handlers : Starts(h) /\ admission'[h].called]_vars

\* C32 as stated: a request modifies the rate-limit state if and only if it
\* passes the origin and content-type checks.
C32_ModifiedIffChecksPassed ==
    [][\A h \in Handlers :
           Starts(h) => (rateState' # rateState <=> admission'[h].called)]_vars

\* a request answered 400 has consumed one unit of the quota of its client
C32_BadRequestConsumed ==
    /\ pc[1] = "done"
    /\ resp[1].status = 400
    /\ admission[1].before.count >= 1
    /\ admission[1].before.resetAt > admission[1].at
    /\ rateState[admission[1].clientId].count = admission[1].before.count + 1

\* the first entry of x-forwarded-for, trimmed; "" when the header is absent
\* or empty
ForwardedFirst(headers) ==
    IF IsString(headers.forwarded) THEN Trim(FirstEntry(headers.forwarded.v)) ELSE ""
HasForwarded(headers) == IsString(headers.forwarded) /\ headers.forwarded.v # ""
ConnectionIp(headers) == IF IsString(headers.ip) THEN headers.ip.v ELSE ""

\* the result and the entry of the last call are those of the same call made
\* had no other client ever called
SameAsAlone ==
    /\ callInput.result = callOutput.aloneResult
    /\ callInput.clientId \in DOMAIN rateState
    /\ rateState[callInput.clientId] = callOutput.alone[callInput.clientId][callInput.clientId]

\* C33 (amended): the quotas of distinct client ids are independent: the
\* admit/reject outcome, the remaining and reset values and the entry of every
\* call are those the call would have had no other client id ever called; the
\* client id is the first entry of x-forwarded-for when the header is not
\* empty, 'unknown' when that first entry is blank (even if the connection ip
\* is known), the connection ip when there is no header, and 'unknown' when
\* there is neither.
C33_IndependentQuotasAmended ==
    callInput.t = "call" =>
        /\ SameAsAlone
        /\ callInput.clientId =
               IF HasForwarded(callInput.headers)
               THEN IF ForwardedFirst(callInput.headers) # ""
                    THEN ForwardedFirst(callInput.headers) ELSE "unknown"
               ELSE IF ConnectionIp(callInput.headers) # ""
               THEN ConnectionIp(callInput.headers) ELSE "unknown"

\* C33 as stated: the quotas of distinct client ids are independent, and the
\* client id is the first entry of x-forwarded-for, else the connection ip,
\* else 'unknown'.
C33_IndependentQuotas ==
    callInput.t = "call" =>
        /\ SameAsAlone
        /\ callInput.clientId =
               IF ForwardedFirst(callInput.headers) # ""
               THEN ForwardedFirst(callInput.headers)
               ELSE IF ConnectionIp(callInput.headers) # ""
               THEN ConnectionIp(callInput.headers) ELSE "unknown"

\* a call without any identifier is admitted on the 'unknown' quota, with
\* remaining below limit - 1, after the quota of 10.0.0.1 was used up
C33_UnknownAdmittedBesideFull ==
    /\ callInput.t = "call"
    /\ callInput.headers = [forwarded |-> Null, ip |-> Undefined]
    /\ callInput.clientId = "unknown"
    /\ callInput.result.allowed
    /\ callInput.result.remaining < limit - 1
    /\ "10.0.0.1" \in DOMAIN rateState
    /\ rateState["10.0.0.1"].count = limit

\* C34: when streamWithRetries returns after one or more failed attempts,
\* the last assistant message holds exactly the delta text of the attempt
\* that succeeded.
C34_RetriedTextExact ==
    (client.pc = "returned" /\ client.attempt > 0) =>
        LastMessage.content = client.attemptText

\* the delta of an attempt whose read was rejected stays in front of the
\* delta of the attempt that succeeded after it
C34_FailedTextKept ==
    /\ client.pc = "returned"
    /\ client.attempt = 1
    /\ client.failures = <<NetworkError>>
    /\ client.attemptText = Delta
    /\ LastMessage.content = Delta \o Delta

-----------------------------------------------------------------------------
(* Properties of the [DONE] line *)

\* the lines whose newline is among the bytes read so far
ReadLines == Front(split(decodeBytes(callInput.bytes, 1, callOutput.offset)))
DoneLine(line) == PrefixedOnceTrimmed(line) /\ dataOf(Trim(line)) = "[DONE]"
DoneRead == \E i \in 1..Len(ReadLines) : DoneLine(ReadLines[i])

\* C35: once a data line with the payload [DONE] has been processed the loop
\* is over: the deltas appended are those of the lines before that line, in
\* the same chunk and in every later one, and no further read is issued and
\* nothing more is appended.
C35_DoneEndsAttempt ==
    /\ []((callInput.t = "body" /\ DoneRead) =>
              /\ callOutput.done
              /\ callOutput.appended =
                     DeltasOf(CompleteLines, 1, Flags(PrefixedOnceTrimmed)))
    /\ [][(callInput.t = "body" /\ callOutput.done) => callOutput' = callOutput]_vars

\* the [DONE] line and the delta line after it came in one read: the delta
\* before the [DONE] line alone was appended
C35_LineAfterDoneDropped ==
    /\ callInput.t = "body"
    /\ callInput.bytes = ": ping\nevent: x\n" \o DeltaA \o "\ndata: [DONE]\n" \o DeltaB \o "\n"
    /\ callOutput.done
    /\ callOutput.offset = Len(callInput.bytes)
    /\ callOutput.appended = <<"a">>

-----------------------------------------------------------------------------
(* Properties of the end of a submission *)

InFlight == client.pc \in {"fetch", "read"}
Ended == ~client.isLoading /\ client.ref = 0

\* C36 (amended): every handleSubmit that started streaming ends, by success,
\* by failure after the retries or by cancellation, with isLoading = false
\* and abortControllerRef = null, provided every fetch, read and delay settles
\* and every body that is read ends after finitely many chunks; the ref is
\* null whenever the page is not loading, and while the request or the read
\* of an attempt is in flight the ref holds the controller of that attempt,
\* unless stopStreaming has aborted it, which leaves the ref null.
C36_SubmissionEndsAmended ==
    /\ [](~client.isLoading => client.ref = 0)
    /\ [](InFlight => client.ref = IF Aborted(client) THEN 0 ELSE client.controller)
    /\ (Reading ~> ~Reading) => (client.isLoading ~> Ended)

\* C36 as stated: every handleSubmit that started streaming ends with
\* isLoading = false and abortControllerRef = null provided every fetch, read
\* and delay settles, and while the request or the read of an attempt is in
\* flight the ref holds the controller of that attempt.
C36_SubmissionEnds ==
    /\ [](InFlight => client.ref = client.controller)
    /\ client.isLoading ~> Ended

\* a submission stopped while its second request was in flight has ended
C36_EndedByCancellation ==
    /\ Ended
    /\ client.pc = "idle"
    /\ client.stoppedAt = "fetch"
    /\ client.error.name = "AbortError"
    /\ Len(client.requests) = 2

-----------------------------------------------------------------------------
(* Properties of the form *)

GuardRejects == guardOrThrow(Trim(client.input)) # ""

\* C37: when the local guard rejects the trimmed input, handleSubmit issues no
\* request, appends no message, leaves the input and the queued images as
\* they are, and sets the one content-policy message whatever rule was
\* violated: nothing but the error of the page changes.
C37_RejectedSubmitFrame ==
    [][(SubmitPressed /\ GuardRejects) =>
           /\ client'.requests = client.requests
           /\ client'.pc = "idle" /\ ~client'.isLoading
           /\ client'.messages = client.messages
           /\ client'.input = client.input
           /\ client'.queuedImages = client.queuedImages
           /\ client'.pageError = MSG_GUARD
           /\ client' = [client EXCEPT !.pageError = MSG_GUARD]]_vars

\* a text of the doxxing rule was refused with an image queued, after a
\* submission that had failed: the text, the image and the conversation stay
C37_DoxxingRefused ==
    /\ client.pageError = MSG_GUARD
    /\ client.input = "filtrar datos"
    /\ guardOrThrow(Trim(client.input)) = REASON_DOXXING
    /\ client.queuedImages = 1
    /\ Len(client.messages) = 1
    /\ client.pc = "idle"

-----------------------------------------------------------------------------
(* Properties of the prompts *)

MSG_SYSTEM_PROMPT == "systemPrompt inválido o demasiado largo"

\* a systemPrompt that is no string, is empty, is longer than MAX_PROMPT_CHARS
\* as it comes, or is empty once stripped and trimmed
InvalidSystemPrompt(systemPrompt) ==
    \/ ~IsString(systemPrompt)
    \/ Len(systemPrompt.v) = 0
    \/ Len(systemPrompt.v) > MAX_PROMPT_CHARS
    \/ sanitizePrompt(systemPrompt.v) = ""

\* the request of handler h was admitted and its body is an object with a
\* model of the list
ReachesPrompts(h) ==
    /\ admission[h].called /\ admission[h].result.allowed
    /\ req[h].body \notin {BadJson, Null}
    /\ req[h].body.t = "object"
    /\ IsString(req[h].body.model) /\ req[h].body.model.v \in ALLOWED_MODELS

\* the character prompt as it is sent: stripped, trimmed, its first
\* MAX_PROMPT_CHARS characters
CharacterPromptSent(characterPrompt) ==
    IF IsString(characterPrompt)
    THEN SubSeq(sanitizePrompt(characterPrompt.v), 1,
                Min(MAX_PROMPT_CHARS, Len(sanitizePrompt(characterPrompt.v))))
    ELSE ""

\* the messages sent for a payload without character prompt, with the
\* character prompt put after the system prompt
WithCharacter(messages, characterPromptValue) ==
    IF characterPromptValue = "" THEN messages
    ELSE <<messages[1], [role |-> "system", content |-> Str(characterPromptValue)]>>
             \o Tail(messages)

\* the answer to the request of handler h follows from the same request
\* without its characterPrompt: the same error, or the same payload with the
\* character prompt among its messages
SameButCharacter(h, without) ==
    /\ without.kind = "error" <=> sent[h] = NoPayload
    /\ without.kind = "error" =>
           resp[h].status = without.status /\ resp[h].body.error = without.message
    /\ (without.kind # "error" /\ Len(without.payload.messages) < 51) =>
           sent[h] = [without.payload EXCEPT !.messages =
                          WithCharacter(@, CharacterPromptSent(req[h].body.characterPrompt))]

\* C38: a systemPrompt that is no string, is empty, is longer than 4000
\* characters before it is sanitized or is empty after it is answered 400,
\* and a valid one is never answered with that error; a characterPrompt is
\* never a cause of rejection: the request is answered as the same request
\* without it, and the prompt is sent stripped, trimmed and cut to its first
\* 4000 characters.
C38_PromptAsymmetry ==
    \A h \in Handlers :
        (pc[h] = "done" /\ apiKey # "" /\ ReachesPrompts(h)) =>
            /\ InvalidSystemPrompt(req[h].body.systemPrompt) <=>
                   (resp[h].status = 400 /\ resp[h].body.error = MSG_SYSTEM_PROMPT)
            /\ SameButCharacter(h, handleBody([req[h].body EXCEPT !.characterPrompt = Undefined],
                                              apiKey))

\* a characterPrompt of 4001 characters was sent cut to 4000, and the stream
\* was relayed
C38_LongCharacterPromptCut ==
    /\ pc[1] = "done"
    /\ resp[1].status = 200
    /\ IsString(req[1].body.characterPrompt)
    /\ Len(req[1].body.characterPrompt.v) = MAX_PROMPT_CHARS + 1
    /\ sent[1].messages[2].role = "system"
    /\ Len(sent[1].messages[2].content.v) = MAX_PROMPT_CHARS

-----------------------------------------------------------------------------
(* Properties of the body that is no JSON *)

\* C39: a request whose body cannot be parsed as JSON is answered 500
\* internal_server_error, not 400, with the RateLimit-* headers of its
\* admission, after it has consumed one unit of the quota of its client, and
\* nothing is sent upstream.
C39_UnparsableBodyIs500 ==
    \A h \in Handlers :
        (pc[h] = "done" /\ req[h].body = BadJson
             /\ admission[h].called /\ admission[h].result.allowed) =>
            /\ resp[h].status = 500
            /\ resp[h].body.code = "internal_server_error"
            /\ resp[h].headers["RateLimit-Limit"] = limit
            /\ resp[h].headers["RateLimit-Remaining"] = admission[h].result.remaining
            /\ resp[h].headers["RateLimit-Reset"] = admission[h].result.resetSeconds
            /\ admission[h].result.remaining = limit - admission[h].after.count
            /\ admission[h].after.count =
                   IF admission[h].before.count = 0
                      \/ admission[h].before.resetAt <= admission[h].at
                   THEN 1 ELSE admission[h].before.count + 1
            /\ rateState[admission[h].clientId] = admission[h].after
            /\ sent[h] = NoPayload
            /\ apiRes[h] = NoResponse

\* the third request of a window had a body that was no JSON and was parsed a
\* window later: the 500 tells the remaining 7 and the 60 seconds of its
\* admission
C39_ThirdOfWindowUnparsable ==
    /\ pc[1] = "done"
    /\ req[1].body = BadJson
    /\ resp[1].status = 500
    /\ admission[1].before.count = 2
    /\ now > admission[1].at
    /\ resp[1].headers["RateLimit-Remaining"] = 7
    /\ resp[1].headers["RateLimit-Reset"] = 60
    /\ rateState[admission[1].clientId].count = 3

====
